---- MODULE Spec2Model ----
(***************************************************************************)
(* Model of the nginx-file-browser API routes: the file listing route      *)
(* (GET /api/files), the download route, the upload route and the zip      *)
(* download route, over a small model of the POSIX filesystem.             *)
(*                                                                         *)
(* Strings are sequences of one-character strings, so that path.normalize, *)
(* path.join, path.resolve, String.startsWith, the regular expressions and *)
(* parseInt are computed character by character, as the code computes      *)
(* them.  A filesystem location ("key") is the sequence of the names on    *)
(* the way from "/" to it.                                                 *)
(***************************************************************************)
EXTENDS Integers, Sequences, FiniteSets, TLC

VARIABLES
    env,      \* process.env.STATIC_FILES_ROOT (<<>> when unset), fixed at start
    fs,       \* the filesystem: key -> node
    req,      \* the request handled last
    resp,     \* the response of the request handled last
    files,    \* the list route's `files` array of the request handled last, after the sort
    touched,  \* the keys the request handled last passed to fs calls
    pager,    \* a client reading a directory page after page
    up,       \* the upload requests in flight: request id -> handler state
    zip       \* the zip route's archive of the request handled last

vars == <<env, fs, req, resp, files, touched, pager, up, zip>>

-----------------------------------------------------------------------------
(* Bounds of the model *)

\* longest request path string of the path-confinement specification
MaxPathLen == 5
\* directories of at most this many entries are read in every order
MaxShuffle == 4
\* number of files of the large directory
BigDirSize == 101
\* most files of one upload batch
MaxBatch == 3

-----------------------------------------------------------------------------
(* Strings *)

Last(s) == s[Len(s)]
Front(s) == SubSeq(s, 1, Len(s) - 1)
Min(a, b) == IF a < b THEN a ELSE b
Max(a, b) == IF a < b THEN b ELSE a

\* String.prototype.startsWith
StartsWith(s, prefix) ==
    /\ Len(prefix) <= Len(s)
    /\ SubSeq(s, 1, Len(prefix)) = prefix

\* String.prototype.includes
Includes(s, sub) ==
    \E i \in 0..(Len(s) - Len(sub)) : SubSeq(s, i + 1, i + Len(sub)) = sub

UpperCase == <<"A", "B", "C", "D", "E", "F", "G", "H", "I", "J", "K", "L", "M",
               "N", "O", "P", "Q", "R", "S", "T", "U", "V", "W", "X", "Y", "Z">>
LowerCase == <<"a", "b", "c", "d", "e", "f", "g", "h", "i", "j", "k", "l", "m",
               "n", "o", "p", "q", "r", "s", "t", "u", "v", "w", "x", "y", "z">>
DigitChars == <<"0", "1", "2", "3", "4", "5", "6", "7", "8", "9">>

IndexIn(seq, c) == IF \E i \in 1..Len(seq) : seq[i] = c
                   THEN CHOOSE i \in 1..Len(seq) : seq[i] = c
                   ELSE 0

Range(seq) == {seq[i] : i \in 1..Len(seq)}

LowerOf == [c \in Range(UpperCase) |-> LowerCase[IndexIn(UpperCase, c)]]

ToLowerChar(c) == IF c \in DOMAIN LowerOf THEN LowerOf[c] ELSE c

\* String.prototype.toLowerCase
ToLowerCase(s) == [i \in 1..Len(s) |-> ToLowerChar(s[i])]

DigitOf == [c \in Range(DigitChars) |-> IndexIn(DigitChars, c) - 1]
IsDigit(c) == c \in DOMAIN DigitOf
DigitValue(c) == DigitOf[c]

\* Number.prototype.toString, for n >= 0
RECURSIVE ToDecimal(_)
ToDecimal(n) == IF n < 10 THEN <<DigitChars[n + 1]>>
                ELSE ToDecimal(n \div 10) \o <<DigitChars[(n % 10) + 1]>>

NaN == [nan |-> TRUE, v |-> 0]
Num(n) == [nan |-> FALSE, v |-> n]

RECURSIVE LeadingDigits(_, _)
LeadingDigits(s, acc) ==
    IF s # <<>> /\ IsDigit(Head(s))
    THEN LeadingDigits(Tail(s), acc * 10 + DigitValue(Head(s)))
    ELSE acc

RECURSIVE SkipSpaces(_)
SkipSpaces(s) == IF s # <<>> /\ Head(s) = " " THEN SkipSpaces(Tail(s)) ELSE s

\* Number.parseInt(s) with no radix, for decimal input: leading blanks, an
\* optional sign, then the longest run of digits; NaN when there is no digit.
ParseInt(s) ==
    LET t == SkipSpaces(s)
        neg == t # <<>> /\ Head(t) = "-"
        u == IF t # <<>> /\ Head(t) \in {"-", "+"} THEN Tail(t) ELSE t
    IN IF u = <<>> \/ ~IsDigit(Head(u)) THEN NaN
       ELSE Num(IF neg THEN 0 - LeadingDigits(u, 0) ELSE LeadingDigits(u, 0))

-----------------------------------------------------------------------------
(* The path module (POSIX) *)

\* the pieces of s between its "/" characters (empty pieces kept)
RECURSIVE Split(_)
Split(s) ==
    IF s = <<>> THEN << <<>> >>
    ELSE LET rest == Split(Tail(s))
         IN IF Head(s) = "/" THEN << <<>> >> \o rest
            ELSE << <<Head(s)>> \o Head(rest) >> \o Tail(rest)

RECURSIVE JoinSegments(_)
JoinSegments(segs) ==
    IF segs = <<>> THEN <<>>
    ELSE IF Len(segs) = 1 THEN Head(segs)
    ELSE Head(segs) \o <<"/">> \o JoinSegments(Tail(segs))

DotDot == <<".", ".">>

\* normalizeString: drops empty and "." segments, and lets ".." remove the
\* segment before it; a ".." with nothing to remove is kept only when
\* allowAboveRoot
RECURSIVE NormalizeSegments(_, _, _)
NormalizeSegments(segs, stack, allowAboveRoot) ==
    IF segs = <<>> THEN stack
    ELSE LET s == Head(segs)
             rest == Tail(segs)
         IN IF s = <<>> \/ s = <<".">>
            THEN NormalizeSegments(rest, stack, allowAboveRoot)
            ELSE IF s = DotDot
            THEN IF stack # <<>> /\ Last(stack) # DotDot
                 THEN NormalizeSegments(rest, Front(stack), allowAboveRoot)
                 ELSE IF allowAboveRoot
                      THEN NormalizeSegments(rest, Append(stack, s), allowAboveRoot)
                      ELSE NormalizeSegments(rest, stack, allowAboveRoot)
            ELSE NormalizeSegments(rest, Append(stack, s), allowAboveRoot)

IsAbsolute(p) == p # <<>> /\ Head(p) = "/"

\* path.normalize
Normalize(p) ==
    IF p = <<>> THEN <<".">>
    ELSE LET abs == IsAbsolute(p)
             trailing == Last(p) = "/"
             body == JoinSegments(NormalizeSegments(Split(p), <<>>, ~abs))
         IN IF body = <<>>
            THEN (IF abs THEN <<"/">> ELSE IF trailing THEN <<".", "/">> ELSE <<".">>)
            ELSE (IF abs THEN <<"/">> ELSE <<>>) \o body
                 \o (IF trailing THEN <<"/">> ELSE <<>>)

\* path.join of two strings
Join(a, b) ==
    IF a = <<>> /\ b = <<>> THEN <<".">>
    ELSE IF a = <<>> THEN Normalize(b)
    ELSE IF b = <<>> THEN Normalize(a)
    ELSE Normalize(a \o <<"/">> \o b)

\* process.cwd()
Cwd == <<"/", "a", "p", "p">>

\* path.resolve of one string
Resolve(p) ==
    LET full == IF IsAbsolute(p) THEN p ELSE Cwd \o <<"/">> \o p
    IN <<"/">> \o JoinSegments(NormalizeSegments(Split(full), <<>>, FALSE))

\* path.basename of one string
Basename(p) ==
    LET segs == NormalizeSegments(Split(p), <<>>, TRUE)
    IN IF segs = <<>> THEN <<>> ELSE Last(segs)

\* the index of the "." that starts the extension of a name, 0 when it has none
ExtStart(name) ==
    LET dots == {i \in 1..Len(name) : name[i] = "."}
        last == CHOOSE i \in dots : \A j \in dots : j <= i
    IN IF dots = {} THEN 0
       ELSE IF last = 1 THEN 0
       ELSE IF name = DotDot THEN 0
       ELSE last

\* path.extname of a name without separators
Extname(name) ==
    IF ExtStart(name) = 0 THEN <<>> ELSE SubSeq(name, ExtStart(name), Len(name))

\* .replace(/^(\.\.[/\\])+/, "")
\* a replace that removes nothing
StripNothing(s) == s

RECURSIVE StripLeadingDotDots(_)
StripLeadingDotDots(s) ==
    IF Len(s) >= 3 /\ s[1] = "." /\ s[2] = "." /\ s[3] \in {"/", "\\"}
    THEN StripLeadingDotDots(SubSeq(s, 4, Len(s)))
    ELSE s

\* .replace(/\\/g, "/")
BackslashesToSlashes(s) == [i \in 1..Len(s) |-> IF s[i] = "\\" THEN "/" ELSE s[i]]

-----------------------------------------------------------------------------
(* The filesystem *)

\* the location a path string names: the kernel's walk from "/" (or from the
\* working directory), with no symbolic links on the way
Key(p) ==
    LET full == IF IsAbsolute(p) THEN p ELSE Cwd \o <<"/">> \o p
    IN NormalizeSegments(Split(full), <<>>, FALSE)

IsPrefixKey(k, l) == Len(k) <= Len(l) /\ SubSeq(l, 1, Len(k)) = k

\* key is the location of `rootPath` or lies below it
Within(key, rootPath) == IsPrefixKey(Key(rootPath), key)

Exists(f, key) == key \in DOMAIN f
IsDir(f, key) == Exists(f, key) /\ f[key].kind = "dir"
\* the entries of a directory, in the directory's own order
Entries(f, key) == [i \in 1..Len(f[key].ents) |-> Append(key, f[key].ents[i])]

\* the bytes of a file are runs <<byte, count>>
RECURSIVE DataSize(_)
DataSize(data) == IF data = <<>> THEN 0 ELSE Head(data)[2] + DataSize(Tail(data))

\* st_size of a directory
DirStatSize == 4096

\* fs.stat: a broken symbolic link has a directory entry and no stat
StatOk(f, key) == Exists(f, key) /\ f[key].kind # "badlink"
StatSize(f, key) == IF f[key].kind = "dir" THEN DirStatSize ELSE DataSize(f[key].data)

DirNode(ents) == [kind |-> "dir", data |-> <<>>, ents |-> ents]
FileNode(data) == [kind |-> "file", data |-> data, ents |-> <<>>]
BadLinkNode == [kind |-> "badlink", data |-> <<>>, ents |-> <<>>]

RECURSIVE SetToSeq(_)
SetToSeq(S) ==
    IF S = {} THEN <<>>
    ELSE LET x == CHOOSE y \in S : TRUE IN <<x>> \o SetToSeq(S \ {x})

\* runs without empty runs and with equal neighbours merged
RECURSIVE Runs(_)
Runs(data) ==
    IF data = <<>> THEN <<>>
    ELSE IF Head(data)[2] = 0 THEN Runs(Tail(data))
    ELSE LET rest == Runs(Tail(data))
         IN IF rest # <<>> /\ Head(rest)[1] = Head(data)[1]
            THEN <<<<Head(data)[1], Head(data)[2] + Head(rest)[2]>>>> \o Tail(rest)
            ELSE <<Head(data)>> \o rest

\* the bytes of `data` from offset n on
RECURSIVE DropBytes(_, _)
DropBytes(data, n) ==
    IF data = <<>> \/ n = 0 THEN data
    ELSE IF Head(data)[2] <= n THEN DropBytes(Tail(data), n - Head(data)[2])
    ELSE <<<<Head(data)[1], Head(data)[2] - n>>>> \o Tail(data)

\* write(fd, buffer) at offset 0 of a file holding `old`
WriteAtStart(old, buffer) == Runs(buffer \o DropBytes(old, DataSize(buffer)))

\* the keys from "/" down to key
Ancestors(key) == {SubSeq(key, 1, n) : n \in 0..Len(key)}

\* fs.mkdir(dir, {recursive: true}) throws: a file is in the way
MkdirFails(f, key) == \E a \in Ancestors(key) : Exists(f, a) /\ ~IsDir(f, a)

\* a directory's node after a name was added to it
WithEntry(node, name) ==
    IF \E i \in 1..Len(node.ents) : node.ents[i] = name THEN node
    ELSE [node EXCEPT !.ents = Append(@, name)]

\* fs.mkdir(dir, {recursive: true}): every missing directory on the way is made
MkdirP(f, key) ==
    LET missing == {a \in Ancestors(key) : ~Exists(f, a)}
    IN [k \in DOMAIN f \cup missing |->
          LET made == {Last(c) : c \in {m \in missing : Len(m) = Len(k) + 1 /\ IsPrefixKey(k, m)}}
              node == IF k \in missing THEN DirNode(<<>>) ELSE f[k]
          IN IF made = {} THEN node
             ELSE [node EXCEPT !.ents = @ \o SetToSeq(made)]]

\* open(path, 'w') throws: the path is a directory, or its parent is none
OpenFails(f, key) == key = <<>> \/ IsDir(f, key) \/ ~IsDir(f, Front(key))

\* open(path, 'w'): the file is created, or cut to no bytes
OpenTruncate(f, key) ==
    [k \in DOMAIN f \cup {key} |->
        IF k = key THEN FileNode(<<>>)
        ELSE IF k = Front(key) THEN WithEntry(f[k], Last(key))
        ELSE f[k]]

-----------------------------------------------------------------------------
(* The routes' configuration *)

\* the list and download routes' getStaticFilesRoot
ListFilesRoot(e) ==
    IF e # <<>> THEN e
    ELSE <<"/", "a", "p", "p", "/", "p", "u", "b", "l", "i", "c", "/", "f", "i", "l", "e", "s">>

\* the root for which the list route makes its demo files
DemoRoot == <<".", "/", "p", "u", "b", "l", "i", "c">>

\* ensureDemoFiles: demoDir, imagesDir and docsDir
DemoDir == Join(DemoRoot, <<"d", "e", "m", "o">>)
ImagesDir == Join(DemoDir, <<"i", "m", "a", "g", "e", "s">>)
DocsDir == Join(DemoDir, <<"d", "o", "c", "u", "m", "e", "n", "t", "s">>)

\* ensureDemoFiles: demoFiles, each with the bytes of its content (the
\* content as one run of the length of its UTF-8 encoding)
DemoFiles ==
    <<[path |-> Join(DemoDir, <<"r", "e", "a", "d", "m", "e", ".", "t", "x", "t">>),
       content |-> <<<<"r", 122>>>>],
      [path |-> Join(DemoDir, <<"s", "a", "m", "p", "l", "e", ".", "j", "s", "o", "n">>),
       content |-> <<<<"s", 184>>>>],
      [path |-> Join(DocsDir, <<"g", "u", "i", "d", "e", ".", "m", "d">>),
       content |-> <<<<"g", 276>>>>],
      [path |-> Join(DocsDir, <<"c", "o", "n", "f", "i", "g", ".", "x", "m", "l">>),
       content |-> <<<<"c", 274>>>>]>>

\* ensureDemoFiles, the three fs.mkdir calls: the first that throws ends the
\* function in its catch
RECURSIVE MakeDemoDirs(_, _)
MakeDemoDirs(f, dirs) ==
    IF dirs = <<>> THEN [fs |-> f, thrown |-> FALSE]
    ELSE IF MkdirFails(f, Key(Head(dirs))) THEN [fs |-> f, thrown |-> TRUE]
    ELSE MakeDemoDirs(MkdirP(f, Key(Head(dirs))), Tail(dirs))

\* ensureDemoFiles, the loop over demoFiles: a file for which fs.access
\* throws is written; a write that throws ends the function in its catch
RECURSIVE WriteDemoFiles(_, _)
WriteDemoFiles(f, demoFiles) ==
    IF demoFiles = <<>> THEN f
    ELSE LET key == Key(Head(demoFiles).path)
         IN IF Exists(f, key) THEN WriteDemoFiles(f, Tail(demoFiles))
            ELSE IF OpenFails(f, key) THEN f
            ELSE WriteDemoFiles([OpenTruncate(f, key) EXCEPT
                                    ![key].data = WriteAtStart(<<>>, Head(demoFiles).content)],
                                Tail(demoFiles))

\* ensureDemoFiles
EnsureDemoFiles(f) ==
    LET made == MakeDemoDirs(f, <<DemoDir, ImagesDir, DocsDir>>)
    IN IF made.thrown THEN made.fs ELSE WriteDemoFiles(made.fs, DemoFiles)

\* the filesystem the list handler goes on with after its first lines: the
\* demo files are made when the root is the string ./public
AfterDemoFiles(f, root) == IF root = DemoRoot THEN EnsureDemoFiles(f) ELSE f

DefaultPage == 1
DefaultLimit == 20
MaxLimit == 100

-----------------------------------------------------------------------------
(* The list route: GET /api/files *)

\* primary collation order of the characters of the model's names (the
\* order of the Unicode collation algorithm that localeCompare applies):
\* blank, punctuation, digits, letters, Hangul syllables; a letter's case is
\* a lower level
CollationOrder ==
    <<" ", "_", "-", ".", "(", ")", "/", "\\">> \o DigitChars \o LowerCase
        \o <<"U+AC00", "U+D7A3">>

PrimaryWeightOf == [c \in Range(CollationOrder) |-> IndexIn(CollationOrder, c)]

PrimaryWeights(s) == [i \in 1..Len(s) |-> PrimaryWeightOf[ToLowerChar(s[i])]]

\* -1, 0, 1: the order of two sequences of numbers, the first difference deciding
RECURSIVE LexCompare(_, _)
LexCompare(a, b) ==
    IF a = <<>> /\ b = <<>> THEN 0
    ELSE IF a = <<>> THEN -1
    ELSE IF b = <<>> THEN 1
    ELSE IF Head(a) < Head(b) THEN -1
    ELSE IF Head(a) > Head(b) THEN 1
    ELSE LexCompare(Tail(a), Tail(b))

\* lower case before upper case
CaseWeights(s) == [i \in 1..Len(s) |-> IF s[i] \in DOMAIN LowerOf THEN 1 ELSE 0]

\* String.prototype.localeCompare: the letters decide, then their case
LocaleCompare(a, b) ==
    LET primary == LexCompare(PrimaryWeights(a), PrimaryWeights(b))
    IN IF primary # 0 THEN primary ELSE LexCompare(CaseWeights(a), CaseWeights(b))

\* a comparator that forgets the type of the items
CompareNamesOnly(a, b) == LocaleCompare(a.name, b.name)

\* the comparator of files.sort
CompareFileItems(a, b) ==
    IF a.type # b.type
    THEN (IF a.type = "directory" THEN -1 ELSE 1)
    ELSE LocaleCompare(a.name, b.name)

\* the merge of two sorted arrays; of two items the comparator holds equal,
\* the left one comes first
RECURSIVE MergeFiles(_, _)
MergeFiles(a, b) ==
    IF a = <<>> THEN b
    ELSE IF b = <<>> THEN a
    ELSE IF CompareFileItems(Head(a), Head(b)) <= 0
    THEN <<Head(a)>> \o MergeFiles(Tail(a), b)
    ELSE <<Head(b)>> \o MergeFiles(a, Tail(b))

\* Array.prototype.sort with CompareFileItems (a stable merge sort)
RECURSIVE SortFiles(_)
SortFiles(items) ==
    IF Len(items) <= 1 THEN items
    ELSE LET half == Len(items) \div 2
         IN MergeFiles(SortFiles(SubSeq(items, 1, half)),
                       SortFiles(SubSeq(items, half + 1, Len(items))))

\* a slice that stops one item early
SliceOneShort(s, from, to) == SubSeq(s, from + 1, Min(to, Len(s)) - 1)

\* Array.prototype.slice(from, to), 0-based, to excluded
Slice(s, from, to) == SubSeq(s, from + 1, Min(to, Len(s)))

\* searchParams.get(name) || def
ParamOr(raw, def) == IF raw = <<>> THEN def ELSE raw

SafePage(pageRaw) ==
    LET page == ParseInt(ParamOr(pageRaw, ToDecimal(DefaultPage)))
    IN IF page.nan \/ page.v < 1 THEN DefaultPage ELSE page.v

\* a limit without the upper cap
SafeLimitUncapped(limitRaw) ==
    LET limit == ParseInt(ParamOr(limitRaw, ToDecimal(DefaultLimit)))
    IN IF limit.nan \/ limit.v < 1 THEN DefaultLimit ELSE limit.v

SafeLimit(limitRaw) ==
    LET limit == ParseInt(ParamOr(limitRaw, ToDecimal(DefaultLimit)))
    IN IF limit.nan \/ limit.v < 1 THEN DefaultLimit ELSE Min(limit.v, MaxLimit)

\* the root-relative path the routes derive from the request's path
SafePath(requestedPath) == StripLeadingDotDots(Normalize(requestedPath))

\* the containment test of the list and download routes
PathAllowed(fullPath, root) == StartsWith(Resolve(fullPath), Resolve(root))

NoError == [kind |-> "none", path |-> <<>>]

\* one answer for every failure: 404, directory not accessible
ListErrorOfOneKind(status, page, kind, path) ==
    [status |-> 404, files |-> <<>>, total |-> 0, page |-> page, hasMore |-> FALSE,
     error |-> [kind |-> "DirNotAccessible", path |-> path]]

\* the error responses of the list route: the status and the body, whose
\* error message is one of four texts (named here by kind), two of them with
\* a path in it
ListError(status, page, kind, path) ==
    [status |-> status, files |-> <<>>, total |-> 0, page |-> page, hasMore |-> FALSE,
     error |-> [kind |-> kind, path |-> path]]

\* the FileItem of one directory entry
FileItemOf(f, safePath, key) ==
    LET name == Last(key)
        relativePath == BackslashesToSlashes(Join(safePath, name))
    IN [name |-> name,
        type |-> IF f[key].kind = "dir" THEN "directory" ELSE "file",
        size |-> StatSize(f, key),
        path |-> IF StartsWith(relativePath, <<"/">>) THEN relativePath
                 ELSE <<"/">> \o relativePath,
        extension |-> IF f[key].kind = "file" /\ Extname(name) # <<>>
                      THEN Tail(Extname(name)) ELSE <<>>]

\* a for loop that pushes an entry whether or not fs.stat succeeded
EntryKeptUnstatted(f, key, search) ==
    /\ ~(search # <<>> /\ ~Includes(ToLowerCase(Last(key)), ToLowerCase(search)))
    /\ ~StartsWith(Last(key), <<".">>)

\* a for loop whose search test compares the name as it is written
EntryKeptCaseSensitive(f, key, search) ==
    /\ StatOk(f, key)
    /\ ~(search # <<>> /\ ~Includes(Last(key), search))
    /\ ~StartsWith(Last(key), <<".">>)

\* the entries of the for loop that reach files.push
EntryKept(f, key, search) ==
    /\ StatOk(f, key)
    /\ ~(search # <<>> /\ ~Includes(ToLowerCase(Last(key)), ToLowerCase(search)))
    /\ ~StartsWith(Last(key), <<".">>)

\* the files array after the for loop over the entries
CollectFiles(f, safePath, entries, search) ==
    LET Kept(key) == EntryKept(f, key, search)
        kept == SelectSeq(entries, Kept)
    IN [i \in 1..Len(kept) |-> FileItemOf(f, safePath, kept[i])]

\* the page of the sorted files
\* a pagination whose hasMore is also set when the page ends at the last entry
PaginateInclusiveEnd(sorted, safePage, safeLimit) ==
    LET total == Len(sorted)
        startIndex == (safePage - 1) * safeLimit
        endIndex == startIndex + safeLimit
    IN [status |-> 200, files |-> Slice(sorted, startIndex, endIndex), total |-> total,
        page |-> safePage, hasMore |-> endIndex <= total, error |-> NoError]

Paginate(sorted, safePage, safeLimit) ==
    LET total == Len(sorted)
        startIndex == (safePage - 1) * safeLimit
        endIndex == startIndex + safeLimit
    IN [status |-> 200, files |-> Slice(sorted, startIndex, endIndex), total |-> total,
        page |-> safePage, hasMore |-> endIndex < total, error |-> NoError]

\* the files array after the loop over the entries of the directory read
\* (keys, in the order of the read) and the sort
ListFilesArray(f, q, entries) ==
    SortFiles(CollectFiles(f, SafePath(ParamOr(q.path, <<"/">>)), entries, q.search))

\* The handler's response, sorted files array and the keys passed to fs
\* calls, `sorted` being ListFilesArray(f, q, entries).
ListRespond(f, root, q, entries, sorted) ==
    LET safePage == SafePage(q.page)
        safeLimit == SafeLimit(q.limit)
        safePath == SafePath(ParamOr(q.path, <<"/">>))
        fullPath == Join(root, safePath)
        target == Key(fullPath)
    IN IF ~Exists(f, Key(root))
       THEN [resp |-> ListError(404, safePage, "RootNotFound", root),
             files |-> <<>>, touched |-> {Key(root)}]
       ELSE IF ~PathAllowed(fullPath, root)
       THEN [resp |-> ListError(400, safePage, "InvalidPath", <<>>),
             files |-> <<>>, touched |-> {Key(root)}]
       ELSE IF ~StatOk(f, target)
       THEN [resp |-> ListError(404, safePage, "DirNotAccessible", fullPath),
             files |-> <<>>, touched |-> {Key(root), target}]
       ELSE IF ~IsDir(f, target)
       THEN [resp |-> ListError(400, safePage, "NotADirectory", <<>>),
             files |-> <<>>, touched |-> {Key(root), target}]
       ELSE [resp |-> Paginate(sorted, safePage, safeLimit),
             files |-> sorted,
             touched |-> {Key(root), target} \cup Range(entries)]

\* the handler, for the directory read returning `entries`
ListHandler(f, root, q, entries) ==
    ListRespond(f, root, q, entries, ListFilesArray(f, q, entries))

\* every order of the elements of a set
RECURSIVE AllOrders(_)
AllOrders(S) ==
    IF S = {} THEN {<<>>}
    ELSE UNION {{<<x>> \o p : p \in AllOrders(S \ {x})} : x \in S}

Reverse(s) == [i \in 1..Len(s) |-> s[Len(s) + 1 - i]]

\* the orders in which fs.readdir may return the entries of a directory
ReadDirOrders(f, key) ==
    IF ~IsDir(f, key) THEN {<<>>}
    ELSE IF Len(f[key].ents) <= MaxShuffle
    THEN AllOrders(Range(Entries(f, key)))
    ELSE {Entries(f, key), Reverse(Entries(f, key))}

\* the directory a list request reads
ListTarget(root, q) == Key(Join(root, SafePath(ParamOr(q.path, <<"/">>))))

NoRequest == [route |-> "none"]
NoResponse == [status |-> 0]
PagerOff == [on |-> FALSE]
NoZip ==
    [pc |-> "idle", i |-> 0, queue |-> <<>>, skipped |-> {}, work |-> <<>>,
     opened |-> {}, cur |-> [name |-> <<>>, source |-> <<>>, data |-> <<>>],
     left |-> 0, entries |-> <<>>, stream |-> "none", pending |-> 0,
     ended |-> FALSE, halted |-> FALSE, vanished |-> FALSE, lateOpen |-> FALSE,
     lateChunk |-> FALSE, delivered |-> FALSE, refused |-> {}]

\* the directory reads a list request may see: the allowed target's entries
\* in some order (no read when the handler returns before fs.readdir)
ListReads(f, root, q) ==
    IF Exists(f, Key(root))
       /\ PathAllowed(Join(root, SafePath(ParamOr(q.path, <<"/">>))), root)
    THEN ReadDirOrders(f, ListTarget(root, q))
    ELSE {<<>>}

\* the list handler's effect, its directory read and sorted array given
ListRun(q, entries, sorted) ==
    \E after \in {AfterDemoFiles(fs, ListFilesRoot(env))} :
        LET r == ListRespond(after, ListFilesRoot(env), q, entries, sorted)
        IN /\ req' = [route |-> "list", q |-> q]
           /\ resp' = r.resp
           /\ files' = r.files
           /\ touched' = r.touched
           /\ fs' = after
           /\ UNCHANGED <<env, up, zip>>

\* GET /api/files?path=&page=&limit=&search=
ListGET(q) ==
    /\ req = NoRequest
    /\ \E after \in {AfterDemoFiles(fs, ListFilesRoot(env))} :
         \E entries \in ListReads(after, ListFilesRoot(env), q) :
            ListRun(q, entries, ListFilesArray(after, q, entries))
    /\ pager' = PagerOff

\* the response has been sent: what the handler held is gone
RequestDone ==
    /\ req # NoRequest
    /\ req.route \in {"list", "download"}
    /\ req' = NoRequest
    /\ resp' = NoResponse
    /\ files' = <<>>
    /\ touched' = {}
    /\ UNCHANGED <<env, fs, pager, up, zip>>

-----------------------------------------------------------------------------
(* The download route *)

DownloadError(status, kind, path) ==
    [status |-> status, error |-> [kind |-> kind, path |-> path], body |-> <<>>,
     fileName |-> <<>>]

DownloadHandler(f, root, requestedPath) ==
    LET safePath == SafePath(requestedPath)
        fullPath == Join(root, safePath)
        target == Key(fullPath)
    IN IF requestedPath = <<>>
       THEN [resp |-> DownloadError(400, "PathRequired", <<>>), touched |-> {}]
       ELSE IF ~Exists(f, Key(root))
       THEN [resp |-> DownloadError(404, "RootNotFound", root), touched |-> {Key(root)}]
       ELSE IF ~PathAllowed(fullPath, root)
       THEN [resp |-> DownloadError(400, "InvalidPath", <<>>), touched |-> {Key(root)}]
       ELSE IF ~StatOk(f, target)
       THEN [resp |-> DownloadError(404, "FileNotFound", <<>>),
             touched |-> {Key(root), target}]
       ELSE IF IsDir(f, target)
       THEN [resp |-> DownloadError(400, "CannotDownloadDirectory", <<>>),
             touched |-> {Key(root), target}]
       ELSE [resp |-> [status |-> 200, error |-> NoError, body |-> f[target].data,
                       fileName |-> Basename(fullPath)],
             touched |-> {Key(root), target}]

\* GET of the download route, ?path=
DownloadGET(requestedPath) ==
    /\ req = NoRequest
    /\ LET r == DownloadHandler(fs, ListFilesRoot(env), requestedPath)
       IN /\ req' = [route |-> "download", q |-> [path |-> requestedPath]]
          /\ resp' = r.resp
          /\ touched' = r.touched
          /\ files' = <<>>
          /\ pager' = PagerOff
          /\ UNCHANGED <<env, fs, up, zip>>

-----------------------------------------------------------------------------
(* Initial values shared by the specifications *)

\* the upload requests
Requests == {1, 2}
UploadIdle == [pc |-> "idle"]

QuietInit ==
    /\ req = NoRequest
    /\ resp = NoResponse
    /\ files = <<>>
    /\ touched = {}
    /\ pager = PagerOff
    /\ up = [r \in Requests |-> UploadIdle]
    /\ zip = NoZip

\* a filesystem from its directories and files (key -> data)
MakeFs(dirs, fileData) ==
    LET all == dirs \cup DOMAIN fileData
        NamesIn(d) == {Last(k) : k \in {c \in all : Len(c) = Len(d) + 1 /\ IsPrefixKey(d, c)}}
    IN [k \in all |->
          IF k \in dirs THEN DirNode(SetToSeq(NamesIn(k))) ELSE FileNode(fileData[k])]

-----------------------------------------------------------------------------
(* The upload route: POST /api/upload *)

\* the upload route's getStaticFilesRoot
UploadFilesRoot(e) ==
    IF e # <<>> THEN e ELSE <<".", "/", "p", "u", "b", "l", "i", "c", "/", "f", "i", "l", "e", "s">>

\* getAllowedExtensions, ALLOWED_UPLOAD_EXTENSIONS unset
ALLOWED_EXTENSIONS ==
    {<<"t", "x", "t">>,
     <<"m", "d">>,
     <<"j", "s", "o", "n">>,
     <<"p", "d", "f">>,
     <<"j", "p", "g">>,
     <<"j", "p", "e", "g">>,
     <<"p", "n", "g">>,
     <<"g", "i", "f">>,
     <<"w", "e", "b", "p">>,
     <<"d", "o", "c">>,
     <<"d", "o", "c", "x">>,
     <<"x", "l", "s">>,
     <<"x", "l", "s", "x">>,
     <<"p", "p", "t">>,
     <<"p", "p", "t", "x">>,
     <<"z", "i", "p">>,
     <<"c", "s", "v">>}

\* getMaxFileSize, MAX_UPLOAD_SIZE unset
MAX_FILE_SIZE == 10 * 1024 * 1024

\* the first and the last character of the range 가-힣
HangulChars == {"U+AC00", "U+D7A3"}

\* a replace that keeps the separators of the name
SafeFileNameWithSeparators(name) ==
    [i \in 1..Len(name) |->
        IF name[i] \in Range(LowerCase) \cup {".", "/", "\\"} THEN name[i] ELSE "_"]

\* the characters the replace of safeFileName keeps: [a-zA-Z0-9가-힣.\-_]
SafeNameChars ==
    Range(LowerCase) \cup Range(UpperCase) \cup Range(DigitChars)
        \cup HangulChars \cup {".", "-", "_"}

\* file.name.replace(/[^a-zA-Z0-9가-힣.\-_]/g, '_')
SafeFileName(name) ==
    [i \in 1..Len(name) |-> IF name[i] \in SafeNameChars THEN name[i] ELSE "_"]

\* the part of a path that path.extname looks at: what follows the last
\* slash, slashes at the end left aside
RECURSIVE LastPart(_)
LastPart(p) ==
    IF p = <<>> THEN <<>>
    ELSE IF Last(p) = "/" THEN LastPart(Front(p))
    ELSE LET slashes == {i \in 1..Len(p) : p[i] = "/"}
         IN IF slashes = {} THEN p
            ELSE SubSeq(p, (CHOOSE i \in slashes : \A j \in slashes : j <= i) + 1, Len(p))

\* path.extname(file.name).slice(1).toLowerCase()
FileExtension(name) ==
    LET ext == Extname(LastPart(name))
    IN ToLowerCase(SubSeq(ext, 2, Len(ext)))

\* path.basename(safeFileName, ext), ext being the name's own extension
NameWithoutExt(name) == SubSeq(name, 1, Len(name) - Len(Extname(name)))

\* `${nameWithoutExt}_(${counter})${ext}`
NewFileName(safeFileName, counter) ==
    NameWithoutExt(safeFileName) \o <<"_", "(">> \o ToDecimal(counter) \o <<")">>
        \o Extname(safeFileName)

\* the target directory of an upload request
TargetDir(root, pathRaw) == Join(root, ParamOr(pathRaw, <<"/">>))

\* an existence check that finds every name free
NameNeverTaken(f, key) == FALSE

\* fs.access(finalPath) does not throw
NameTaken(f, key) == Exists(f, key)

\* the outcomes pushed to results; `path` is the path that the error
\* message names, <<>> when it names none
Rejected(file, kind) ==
    [name |-> file.name, success |-> FALSE, savedAs |-> <<>>, size |-> 0, error |-> kind,
     path |-> <<>>]
Stored(file, finalPath) ==
    [name |-> file.name, success |-> TRUE, savedAs |-> Basename(finalPath),
     size |-> file.size, error |-> "none", path |-> <<>>]
\* the catch of the loop body: error.message of a failed fs call names the
\* path the call was given
IOFailed(file, path) == [Rejected(file, "IOFailure") EXCEPT !.path = path]

SuccessCount(results) == Cardinality({j \in 1..Len(results) : results[j].success})

\* a push that ends the batch at the first file that is not stored
PushAndStopAtFailure(u, outcome) ==
    LET results == Append(u.results, outcome)
    IN IF u.i < Len(u.items) /\ outcome.success
       THEN [u EXCEPT !.pc = "validate", !.i = @ + 1, !.results = results]
       ELSE [u EXCEPT !.pc = "done", !.status = 200, !.results = results,
                      !.successCount = SuccessCount(results),
                      !.failCount = Len(results) - SuccessCount(results)]

\* the loop goes on without the outcome of the file at hand
PushNothing(u, outcome) ==
    IF u.i < Len(u.items)
    THEN [u EXCEPT !.pc = "validate", !.i = @ + 1]
    ELSE [u EXCEPT !.pc = "done", !.status = 200,
                   !.successCount = SuccessCount(u.results),
                   !.failCount = Len(u.results) - SuccessCount(u.results)]

\* results.push(outcome), and the loop goes on with the next file; after the
\* last one the response is sent
PushResult(u, outcome) ==
    LET results == Append(u.results, outcome)
    IN IF u.i < Len(u.items)
       THEN [u EXCEPT !.pc = "validate", !.i = @ + 1, !.results = results]
       ELSE [u EXCEPT !.pc = "done", !.status = 200, !.results = results,
                      !.successCount = SuccessCount(results),
                      !.failCount = Len(results) - SuccessCount(results)]

\* a handler that makes the target directory as soon as the form is read
UploadPOSTMakingDir(r, pathRaw, items) ==
    /\ up[r].pc = "idle"
    /\ up' = [up EXCEPT ![r] =
                [pc |-> IF items = <<>> THEN "done" ELSE "validate",
                 status |-> IF items = <<>> THEN 400 ELSE 0,
                 path |-> pathRaw, items |-> items, i |-> 1, results |-> <<>>,
                 finalPath |-> <<>>, counter |-> 0, buffer |-> <<>>,
                 successCount |-> 0, failCount |-> 0]]
    /\ LET targetDir == Key(TargetDir(UploadFilesRoot(env), pathRaw))
       IN fs' = IF MkdirFails(fs, targetDir) THEN fs ELSE MkdirP(fs, targetDir)
    /\ UNCHANGED <<env, req, resp, files, touched, pager, zip>>

\* POST /api/upload: the form is read
UploadPOST(r, pathRaw, items) ==
    /\ up[r].pc = "idle"
    /\ up' = [up EXCEPT ![r] =
                [pc |-> IF items = <<>> THEN "done" ELSE "validate",
                 status |-> IF items = <<>> THEN 400 ELSE 0,
                 path |-> pathRaw, items |-> items, i |-> 1, results |-> <<>>,
                 finalPath |-> <<>>, counter |-> 0, buffer |-> <<>>,
                 successCount |-> 0, failCount |-> 0]]
    /\ UNCHANGED <<env, fs, req, resp, files, touched, pager, zip>>

\* checks that look at the extension before the size
UploadValidateTypeFirst(r) ==
    /\ up[r].pc = "validate"
    /\ LET u == up[r]
           file == u.items[u.i]
       IN up' = [up EXCEPT ![r] =
                   IF FileExtension(file.name) \notin ALLOWED_EXTENSIONS
                   THEN PushResult(u, Rejected(file, "DisallowedType"))
                   ELSE IF file.size > MAX_FILE_SIZE
                   THEN PushResult(u, Rejected(file, "FileTooLarge"))
                   ELSE [u EXCEPT !.pc = "mkdir"]]
    /\ UNCHANGED <<env, fs, req, resp, files, touched, pager, zip>>

\* the size and extension checks of the file at hand
UploadValidate(r) ==
    /\ up[r].pc = "validate"
    /\ LET u == up[r]
           file == u.items[u.i]
       IN up' = [up EXCEPT ![r] =
                   IF file.size > MAX_FILE_SIZE THEN PushResult(u, Rejected(file, "FileTooLarge"))
                   ELSE IF FileExtension(file.name) \notin ALLOWED_EXTENSIONS
                   THEN PushResult(u, Rejected(file, "DisallowedType"))
                   ELSE [u EXCEPT !.pc = "mkdir"]]
    /\ UNCHANGED <<env, fs, req, resp, files, touched, pager, zip>>

\* await fs.mkdir(targetDir, { recursive: true })
UploadMkdir(r) ==
    /\ up[r].pc = "mkdir"
    /\ LET u == up[r]
           file == u.items[u.i]
           targetDir == TargetDir(UploadFilesRoot(env), u.path)
       IN IF MkdirFails(fs, Key(targetDir))
          THEN /\ up' = [up EXCEPT ![r] = PushResult(u, IOFailed(file, targetDir))]
               /\ fs' = fs
          ELSE /\ up' = [up EXCEPT ![r] =
                           [u EXCEPT !.pc = "access",
                                     !.finalPath = Join(targetDir, SafeFileName(file.name)),
                                     !.counter = 1]]
               /\ fs' = MkdirP(fs, Key(targetDir))
    /\ UNCHANGED <<env, req, resp, files, touched, pager, zip>>

\* await fs.access(finalPath): a taken name gives the next name to try
UploadAccess(r) ==
    /\ up[r].pc = "access"
    /\ LET u == up[r]
           file == u.items[u.i]
           targetDir == TargetDir(UploadFilesRoot(env), u.path)
       IN up' = [up EXCEPT ![r] =
                   IF NameTaken(fs, Key(u.finalPath))
                   THEN [u EXCEPT !.finalPath =
                                     Join(targetDir, NewFileName(SafeFileName(file.name), u.counter)),
                                  !.counter = @ + 1]
                   ELSE [u EXCEPT !.pc = "read"]]
    /\ UNCHANGED <<env, fs, req, resp, files, touched, pager, zip>>

\* await file.arrayBuffer()
UploadRead(r) ==
    /\ up[r].pc = "read"
    /\ LET u == up[r]
       IN up' = [up EXCEPT ![r] = [u EXCEPT !.pc = "open", !.buffer = u.items[u.i].data]]
    /\ UNCHANGED <<env, fs, req, resp, files, touched, pager, zip>>

\* fs.writeFile(finalPath, buffer), first half: the file is opened with flag 'w'
UploadOpen(r) ==
    /\ up[r].pc = "open"
    /\ LET u == up[r]
           key == Key(u.finalPath)
       IN IF OpenFails(fs, key)
          THEN /\ up' = [up EXCEPT ![r] = PushResult(u, IOFailed(u.items[u.i], u.finalPath))]
               /\ fs' = fs
          ELSE /\ up' = [up EXCEPT ![r] = [u EXCEPT !.pc = "write"]]
               /\ fs' = OpenTruncate(fs, key)
    /\ UNCHANGED <<env, req, resp, files, touched, pager, zip>>

\* fs.writeFile(finalPath, buffer), second half: the buffer is written from
\* the start of the opened file, and the outcome is pushed
UploadWrite(r) ==
    /\ up[r].pc = "write"
    /\ LET u == up[r]
           key == Key(u.finalPath)
       IN /\ fs' = [fs EXCEPT ![key].data = WriteAtStart(@, u.buffer)]
          /\ up' = [up EXCEPT ![r] = PushResult(u, Stored(u.items[u.i], u.finalPath))]
    /\ UNCHANGED <<env, req, resp, files, touched, pager, zip>>

-----------------------------------------------------------------------------
(* The zip download route: POST /api/download/zip *)

\* the zip route's getStaticFilesRoot
ZipFilesRoot(e) ==
    IF e # <<>> THEN e ELSE <<".", "/", "p", "u", "b", "l", "i", "c", "/", "f", "i", "l", "e", "s">>

\* filePath.startsWith('/') ? filePath.slice(1) : filePath
RelativePath(filePath) ==
    IF StartsWith(filePath, <<"/">>) THEN Tail(filePath) ELSE filePath

\* the files below a directory, each once
FilesBelow(f, dir) ==
    SetToSeq({k \in DOMAIN f : IsPrefixKey(dir, k) /\ k # dir /\ f[k].kind = "file"})

\* every file of the directory is named by its own name alone
NameBelowFlat(destpath, dir, key) ==
    IF destpath = <<>> THEN Last(key) ELSE destpath \o <<"/">> \o Last(key)

\* the name of an entry below a directory added under destpath
NameBelow(destpath, dir, key) ==
    LET rest == JoinSegments(SubSeq(key, Len(dir) + 1, Len(key)))
    IN IF destpath = <<>> THEN rest ELSE destpath \o <<"/">> \o rest

\* archive.directory(fullPath, relativePath): the files below, when read
DirectoryEntries(f, fullPath, relativePath) ==
    LET dir == Key(fullPath)
        below == FilesBelow(f, dir)
    IN [i \in 1..Len(below) |->
          [name |-> NameBelow(relativePath, dir, below[i]), source |-> below[i],
           data |-> f[below[i]].data]]

\* archive.file(fullPath, { name: relativePath }); the name is the one
\* handed to the archiver
FileEntry(f, fullPath, relativePath) ==
    <<[name |-> relativePath, source |-> Key(fullPath), data |-> f[Key(fullPath)].data]>>

\* the source bytes of one read of an open source file, which reach the
\* stream as one chunk of archive data
ChunkSize == 4

\* the queue size above which a ReadableStream built with the default
\* strategy reports that it wants no more chunks
HighWaterMark == 1

NoEntry == [name |-> <<>>, source |-> <<>>, data |-> <<>>]

\* fs.unlink by another process
RemoveFile(f, k) ==
    [x \in DOMAIN f \ {k} |->
        IF x = Front(k)
        THEN [f[x] EXCEPT !.ents = SelectSeq(@, LAMBDA n : n # Last(k))]
        ELSE f[x]]

\* POST: the paths are read, and the response with the stream is returned;
\* start(controller) creates the archiver and calls addFilesToArchive
ZipPOST(paths) ==
    /\ req = NoRequest
    /\ zip.pc = "idle"
    /\ req' = [route |-> "zip", paths |-> paths]
    /\ resp' = [status |-> IF paths = <<>> THEN 400 ELSE 200]
    /\ zip' = [NoZip EXCEPT !.pc = IF paths = <<>> THEN "done" ELSE "adding",
                            !.i = 1,
                            !.stream = IF paths = <<>> THEN "none" ELSE "readable"]
    /\ touched' = {}
    /\ UNCHANGED <<env, fs, files, pager, up>>

\* a path whose fs.stat throws ends the whole archive
AbortOnMissing(z, n) == [z EXCEPT !.skipped = @ \cup {n}, !.stream = "errored"]

\* the catch around fs.stat: the path is logged and the loop goes on
SkipPath(z, n) == [z EXCEPT !.skipped = @ \cup {n}]

\* addFilesToArchive, one path: fs.stat, then archive.directory or
\* archive.file, which queue the source; a path that cannot be stat-ed is
\* skipped
ZipAddPath ==
    /\ zip.pc = "adding"
    /\ LET filePath == req.paths[zip.i]
           fullPath == Join(ZipFilesRoot(env), filePath)
           relativePath == RelativePath(filePath)
           z == IF ~StatOk(fs, Key(fullPath)) THEN SkipPath(zip, zip.i)
                ELSE [zip EXCEPT !.queue =
                          Append(@, [directory |-> IsDir(fs, Key(fullPath)),
                                     fullPath |-> fullPath,
                                     relativePath |-> relativePath, index |-> zip.i])]
       IN /\ zip' = [z EXCEPT !.i = @ + 1,
                              !.pc = IF zip.i = Len(req.paths) THEN "finalize" ELSE "adding"]
          /\ touched' = touched \cup {Key(fullPath)}
    /\ UNCHANGED <<env, fs, req, resp, files, pager, up>>

\* archive.finalize(): no more sources will be queued; the promise is
\* settled when the archiver has written its last byte
ZipFinalize ==
    /\ zip.pc = "finalize"
    /\ zip' = [zip EXCEPT !.pc = "waiting"]
    /\ UNCHANGED <<env, fs, req, resp, files, touched, pager, up>>

\* the archiver is at work: it was created, has not ended and was not
\* stopped by an exception thrown out of one of its listeners
ArchiverRuns == zip.stream # "none" /\ ~zip.ended /\ ~zip.halted

\* the archiver takes the next queued source: a file is stat-ed again (one
\* that has vanished gives a warning, which nobody listens to, and no
\* entry), a directory is walked
ZipTakeTask ==
    /\ ArchiverRuns
    /\ zip.queue # <<>>
    /\ zip.work = <<>>
    /\ zip.opened = {}
    /\ LET q == Head(zip.queue)
           found == IF q.directory THEN DirectoryEntries(fs, q.fullPath, q.relativePath)
                    ELSE IF StatOk(fs, Key(q.fullPath))
                         THEN FileEntry(fs, q.fullPath, q.relativePath)
                         ELSE <<>>
       IN zip' = [zip EXCEPT !.queue = Tail(@), !.work = found]
    /\ UNCHANGED <<env, fs, req, resp, files, touched, pager, up>>

\* the stream's state once it is closed or errored
StreamOver(z) == z.stream \in {"closed", "errored"}

\* a call of a controller method (enqueue, close, error) made by one of the
\* archiver's listeners: it is remembered when the stream it is made on has
\* been closed or errored before
Called(z, method) == IF StreamOver(z) THEN z.refused \cup {method} ELSE z.refused

\* the archiver opens the source of its next entry; a source that cannot be
\* opened makes it emit 'error', and the listener calls controller.error,
\* which does nothing to a stream that is no longer readable; the archiver
\* goes on with its next entry
ZipOpenSource ==
    /\ ArchiverRuns
    /\ zip.work # <<>>
    /\ zip.opened = {}
    /\ LET e == Head(zip.work)
       IN IF Exists(fs, e.source) /\ fs[e.source].kind = "file"
          THEN zip' = [zip EXCEPT !.work = Tail(@),
                                  !.opened = {e.source},
                                  !.cur = [e EXCEPT !.data = fs[e.source].data],
                                  !.left = DataSize(fs[e.source].data),
                                  !.lateOpen = @ \/ zip.stream = "cancelled"]
          ELSE zip' = [zip EXCEPT !.work = Tail(@),
                                  !.stream = IF @ = "readable" THEN "errored" ELSE @,
                                  !.refused = Called(zip, "error")]
    /\ UNCHANGED <<env, fs, req, resp, files, touched, pager, up>>

\* archive.on('data'): the archiver reads the open source and emits a chunk,
\* and the listener calls controller.enqueue whatever the size of the
\* stream's queue. On a stream that is no longer readable controller.enqueue
\* throws out of the listener into the archiver, which may or may not go on.
ZipReadChunk ==
    /\ ArchiverRuns
    /\ zip.opened # {}
    /\ zip.left > 0
    /\ \E goesOn \in BOOLEAN :
          zip' = IF zip.stream = "readable"
                 THEN [zip EXCEPT !.left = @ - Min(ChunkSize, @),
                                  !.pending = @ + 1,
                                  !.delivered = TRUE]
                 ELSE [zip EXCEPT !.left = @ - Min(ChunkSize, @),
                                  !.lateChunk = @ \/ zip.stream = "cancelled",
                                  !.refused = Called(zip, "enqueue"),
                                  !.halted = ~goesOn]
    /\ UNCHANGED <<env, fs, req, resp, files, touched, pager, up>>

\* the open source has been read to its end: its handle is closed and the
\* entry is complete
ZipCloseSource ==
    /\ ArchiverRuns
    /\ zip.opened # {}
    /\ zip.left = 0
    /\ zip' = [zip EXCEPT !.opened = {}, !.cur = NoEntry,
                          !.entries = Append(@, zip.cur)]
    /\ UNCHANGED <<env, fs, req, resp, files, touched, pager, up>>

\* after finalize, with every queued source written, the archiver writes
\* the archive's central directory: one more 'data' event, whose listener
\* calls controller.enqueue as for any other chunk
ZipWriteDirectory ==
    /\ ArchiverRuns
    /\ zip.pc = "waiting"
    /\ zip.queue = <<>>
    /\ zip.work = <<>>
    /\ zip.opened = {}
    /\ \E goesOn \in BOOLEAN :
          zip' = IF zip.stream = "readable"
                 THEN [zip EXCEPT !.pc = "ending", !.pending = @ + 1]
                 ELSE [zip EXCEPT !.pc = "ending",
                                  !.lateChunk = @ \/ zip.stream = "cancelled",
                                  !.refused = Called(zip, "enqueue"),
                                  !.halted = ~goesOn]
    /\ UNCHANGED <<env, fs, req, resp, files, touched, pager, up>>

\* archive.on('end'): with its last byte written the archiver ends and the
\* listener calls controller.close
ZipEnd ==
    /\ ArchiverRuns
    /\ zip.pc = "ending"
    /\ zip' = [zip EXCEPT !.pc = "done", !.ended = TRUE,
                          !.stream = IF @ = "readable" THEN "closed" ELSE @,
                          !.refused = Called(zip, "close")]
    /\ UNCHANGED <<env, fs, req, resp, files, touched, pager, up>>

\* the client reads one chunk of the response
ZipConsume ==
    /\ zip.stream \in {"readable", "closed"}
    /\ zip.pending > 0
    /\ zip' = [zip EXCEPT !.pending = @ - 1]
    /\ UNCHANGED <<env, fs, req, resp, files, touched, pager, up>>

\* the client disconnects: the stream is cancelled and its queue dropped;
\* the underlying source has no cancel method, so the archiver is not told
ZipCancel ==
    /\ zip.stream = "readable"
    /\ zip' = [zip EXCEPT !.stream = "cancelled", !.pending = 0]
    /\ UNCHANGED <<env, fs, req, resp, files, touched, pager, up>>

\* another process removes a file; the archive in the making, if there is
\* one, is marked as having lost a file since its request
ZipRemove(k) ==
    /\ Exists(fs, k)
    /\ fs[k].kind = "file"
    /\ fs' = RemoveFile(fs, k)
    /\ zip' = [zip EXCEPT !.vanished = @ \/ zip.stream # "none"]
    /\ UNCHANGED <<env, req, resp, files, touched, pager, up>>

\* the response is over: the archiver has ended or has stopped
ZipDone ==
    /\ req # NoRequest
    /\ req.route = "zip"
    /\ zip.pc = "done" \/ zip.halted
    /\ req' = NoRequest
    /\ resp' = NoResponse
    /\ zip' = NoZip
    /\ touched' = {}
    /\ UNCHANGED <<env, fs, files, pager, up>>

-----------------------------------------------------------------------------
(* Specification SpecPath: list and download requests for every path string *)

PathAlphabet == {"/", ".", "\\", "r"}
PathStrings == UNION {[1..n -> PathAlphabet] : n \in 0..MaxPathLen}

\* the configured roots: absolute, relative to the working directory, unset
PathRoots == {<<"/", "r">>, <<"r">>, <<>>}

N_r == <<"r">>
N_rr == <<"r", "r">>
N_app == <<"a", "p", "p">>
N_public == <<"p", "u", "b", "l", "i", "c">>
N_files == <<"f", "i", "l", "e", "s">>

\* /r and /app/r, each with the sibling rr, whose path starts with the
\* root's; files below the roots and in the siblings
PathFs ==
    MakeFs({<<>>, <<N_r>>, <<N_r, N_r>>, <<N_rr>>, <<N_app>>, <<N_app, N_r>>, <<N_app, N_rr>>,
            <<N_app, N_public>>, <<N_app, N_public, N_files>>},
           (<<N_r, N_rr>> :> <<<<"a", 1>>>>) @@ (<<N_r, N_r, N_r>> :> <<<<"b", 1>>>>)
           @@ (<<N_rr, N_r>> :> <<<<"s", 1>>>>)
           @@ (<<N_app, N_r, N_r>> :> <<<<"c", 1>>>>) @@ (<<N_app, N_rr, N_r>> :> <<<<"t", 1>>>>)
           @@ (<<N_app, N_public, N_files, N_r>> :> <<<<"d", 1>>>>))

InitPath ==
    /\ env \in PathRoots
    /\ fs = PathFs
    /\ QuietInit

ListAnyPath == \E p \in PathStrings :
    ListGET([path |-> p, page |-> <<>>, limit |-> <<>>, search |-> <<>>])

DownloadAnyPath == req = NoRequest /\ \E p \in PathStrings : DownloadGET(p)

NextPath == ListAnyPath \/ DownloadAnyPath \/ RequestDone

SpecPath == InitPath /\ [][NextPath]_vars

\* C1: whatever the request path, every filesystem location a list or a
\* download request passes to an fs call is the sandbox root or lies below it
\* (so a failing request touches nothing else either, and no sibling of the
\* root whose path only starts with the root's characters is read).
C1_ListDownloadStayInRoot ==
    req.route \in {"list", "download"} =>
        \A k \in touched : Within(k, ListFilesRoot(env))

\* a request whose path starts with "../" was answered with the content of a
\* location below the root
C1_Witness ==
    /\ req.route \in {"list", "download"}
    /\ StartsWith(req.q.path, <<".", ".", "/">>)
    /\ resp.status = 200
    /\ \E k \in touched : k # Key(ListFilesRoot(env)) /\ Within(k, ListFilesRoot(env))

\* a path that shows where the sandbox root is: an absolute path, or one
\* that holds the configured root
ShowsRoot(path, root) == path # <<>> /\ (IsAbsolute(path) \/ Includes(path, root))

\* C13: no error response of list, download or upload names the sandbox
\* root's location or any absolute path.
C13_ErrorsNameNoAbsolutePath ==
    /\ (req.route \in {"list", "download"} /\ resp.status >= 400) =>
          ~ShowsRoot(resp.error.path, ListFilesRoot(env))
    /\ \A r \in Requests :
          up[r].pc # "idle" =>
             \A j \in 1..Len(up[r].results) :
                 ~ShowsRoot(up[r].results[j].path, UploadFilesRoot(env))

\* the path of a list or download request as the client gave it
RequestedPath ==
    IF req.route = "list" THEN ParamOr(req.q.path, <<"/">>) ELSE req.q.path

\* the request's path, taken from the root and made canonical, leaves the root
Escapes(root, path) == ~Within(Key(Join(root, path)), root)

\* C14: a list or download request whose path, made canonical from the
\* sandbox root, is not the root or a descendant of it is refused as an
\* invalid path and returns no entries and no file content.
C14_EscapingPathsAreRefused ==
    (req.route \in {"list", "download"} /\ Escapes(ListFilesRoot(env), RequestedPath)) =>
        /\ resp.status = 400
        /\ resp.error.kind = "InvalidPath"

-----------------------------------------------------------------------------
(* A client that reads a directory page after page (the explorer's          *)
(* "load more": it asks for the next page while hasMore, and appends)       *)

\* the explorer's state after fetchFiles(path, page, append)
PagerAfter(q, page, append) ==
    [on |-> TRUE, q |-> q, currentPage |-> page,
     files |-> IF resp'.status # 200 THEN <<>>
               ELSE IF append THEN pager.files \o resp'.files ELSE resp'.files,
     hasMore |-> IF resp'.status # 200 THEN pager.on /\ pager.hasMore ELSE resp'.hasMore]

\* handleLoadMore: fetchFiles(currentPath, currentPage + 1, true)
PagerLoadMore ==
    /\ req = NoRequest
    /\ pager.on
    /\ pager.hasMore
    /\ LET q == [pager.q EXCEPT !.page = ToDecimal(pager.currentPage + 1)]
       IN /\ \E entries \in ListReads(AfterDemoFiles(fs, ListFilesRoot(env)), ListFilesRoot(env), q) :
                ListRun(q, entries, ListFilesArray(AfterDemoFiles(fs, ListFilesRoot(env)), q, entries))
          /\ pager' = PagerAfter(q, pager.currentPage + 1, TRUE)

\* the client leaves the directory
PagerLeave ==
    /\ req = NoRequest
    /\ pager.on
    /\ ~pager.hasMore
    /\ pager' = PagerOff
    /\ UNCHANGED <<env, fs, req, resp, files, touched, up, zip>>

-----------------------------------------------------------------------------
(* Specification SpecList: list requests over directory snapshots *)

N_docs == <<"d", "o", "c", "s">>
N_a_txt == <<"a", ".", "t", "x", "t">>
N_b_txt == <<"b", ".", "t", "x", "t">>
N_A_txt == <<"A", ".", "t", "x", "t">>
N_Ab_txt == <<"A", "b", ".", "t", "x", "t">>
N_guide_md == <<"g", "u", "i", "d", "e", ".", "m", "d">>
N_B == <<"B">>
N_a == <<"a">>
N_hidden == <<".", "h">>
N_lnk == <<"l", "n", "k">>

ListRoot == <<"/", "r">>

\* the root of the spec's example: docs/ (a directory), a.txt and b.txt
ExampleFs ==
    MakeFs({<<N_r>>, <<N_r, N_docs>>},
           (<<N_r, N_a_txt>> :> <<<<"a", 3>>>>) @@ (<<N_r, N_b_txt>> :> <<<<"b", 5>>>>)
           @@ (<<N_r, N_docs, N_guide_md>> :> <<<<"g", 7>>>>))

\* directories and files whose names differ in case
MixedFs ==
    MakeFs({<<N_r>>, <<N_r, N_B>>, <<N_r, N_a>>},
           (<<N_r, N_b_txt>> :> <<<<"b", 1>>>>) @@ (<<N_r, N_A_txt>> :> <<<<"A", 2>>>>)
           @@ (<<N_r, N_a, N_hidden>> :> <<>>))

\* a hidden file, a broken link, and names that differ only in case
HiddenFs ==
    LET plain == MakeFs({<<N_r>>, <<N_r, N_docs>>},
                        (<<N_r, N_hidden>> :> <<<<"h", 1>>>>) @@ (<<N_r, N_a_txt>> :> <<<<"a", 1>>>>)
                        @@ (<<N_r, N_A_txt>> :> <<<<"A", 2>>>>)
                        @@ (<<N_r, N_Ab_txt>> :> <<<<"c", 3>>>>))
    IN (<<N_r>> :> DirNode(Append(plain[<<N_r>>].ents, N_lnk)))
       @@ (<<N_r, N_lnk>> :> BadLinkNode) @@ plain

\* the name of the i-th file of the large directory: f000, f001, ...
BigName(i) == <<"f", DigitChars[((i \div 100) % 10) + 1], DigitChars[((i \div 10) % 10) + 1],
                DigitChars[(i % 10) + 1]>>

\* a directory of BigDirSize files
BigFs ==
    (<<N_r>> :> DirNode([i \in 1..BigDirSize |-> BigName(i - 1)]))
    @@ [k \in {<<N_r, BigName(i)>> : i \in 0..(BigDirSize - 1)} |-> FileNode(<<<<"f", 1>>>>)]

\* no sandbox root at all
NoRootFs == MakeFs({<<N_app>>}, (<<N_rr>> :> <<<<"o", 1>>>>))

ListSnapshots == {ExampleFs, MixedFs, HiddenFs, BigFs, NoRootFs}

ListPaths == {<<>>, <<"/">>, <<"/">> \o N_docs, <<"/">> \o N_a_txt, <<"/", "x">>}
ListPages == {<<>>, <<"0">>, <<"-", "1">>, <<"x">>, <<"1">>, <<"2">>, <<"3">>, <<"5", "2">>}
ListLimits == {<<>>, <<"0">>, <<"-", "3">>, <<"x">>, <<"1">>, <<"2">>, <<"3">>, <<"2", "0">>,
               <<"1", "0", "0">>, <<"1", "0", "1">>, <<"1", "5", "0">>, <<"2", "x">>}
ListSearches == {<<>>, <<"a">>, <<"T", "X">>}

InitList ==
    /\ env = ListRoot
    /\ fs \in ListSnapshots
    /\ QuietInit

\* any list request (the directory is read and sorted once for the
\* requests that differ in page and limit only)
ListAny ==
    /\ req = NoRequest
    /\ ~pager.on
    /\ pager' = PagerOff
    /\ \E p \in ListPaths, s \in ListSearches :
         LET q0 == [path |-> p, page |-> <<>>, limit |-> <<>>, search |-> s]
         IN \E entries \in ListReads(AfterDemoFiles(fs, ListFilesRoot(env)), ListFilesRoot(env), q0) :
              LET sorted == ListFilesArray(AfterDemoFiles(fs, ListFilesRoot(env)), q0, entries)
              IN \E pg \in ListPages, l \in ListLimits :
                   ListRun([q0 EXCEPT !.page = pg, !.limit = l], entries, sorted)

\* the explorer opens a directory: fetchFiles(currentPath, 1)
PagerStart ==
    /\ req = NoRequest
    /\ ~pager.on
    /\ \E p \in ListPaths, s \in ListSearches :
         LET q0 == [path |-> p, page |-> ToDecimal(1), limit |-> <<>>, search |-> s]
         IN \E entries \in ListReads(AfterDemoFiles(fs, ListFilesRoot(env)), ListFilesRoot(env), q0) :
              LET sorted == ListFilesArray(AfterDemoFiles(fs, ListFilesRoot(env)), q0, entries)
              IN \E l \in ListLimits :
                   /\ ListRun([q0 EXCEPT !.limit = l], entries, sorted)
                   /\ pager' = PagerAfter([q0 EXCEPT !.limit = l], 1, FALSE)

NextList == ListAny \/ PagerStart \/ PagerLoadMore \/ PagerLeave \/ RequestDone

SpecList == InitList /\ [][NextList]_vars

-----------------------------------------------------------------------------
(* Claims about the list route's pages (SpecList) *)

ListAnswered == req.route = "list" /\ resp.status = 200

\* largest number a request parameter of the model denotes
NumeralBound == 200
DecimalOf == [n \in 0..NumeralBound |-> ToDecimal(n)]

\* What a parameter string says, read off its characters: "missing" for the
\* empty string, "number" with the value of the decimal numeral it starts
\* with (after an optional sign), "other" when it starts with no numeral.
ParamReading(raw) ==
    LET neg == raw # <<>> /\ Head(raw) = "-"
        body == IF raw # <<>> /\ Head(raw) \in {"-", "+"} THEN Tail(raw) ELSE raw
        k == CHOOSE i \in 0..Len(body) :
                 /\ \A j \in 1..i : IsDigit(body[j])
                 /\ (i = Len(body) \/ ~IsDigit(body[i + 1]))
        n == CHOOSE m \in DOMAIN DecimalOf : DecimalOf[m] = SubSeq(body, 1, k)
    IN IF raw = <<>> THEN [kind |-> "missing", v |-> 0]
       ELSE IF k = 0 THEN [kind |-> "other", v |-> 0]
       ELSE [kind |-> "number", v |-> IF neg THEN 0 - n ELSE n]

\* the page size and page number of the request handled last
EffectiveLimit == SafeLimit(req.q.limit)
EffectivePage == SafePage(req.q.page)

\* the entries of `full` at the 0-based positions from .. to - 1 that exist
Positions(full, from, to) ==
    [i \in 1..Max(0, Min(to, Len(full)) - from) |-> full[from + i]]

C8_Original ==
    (ListAnswered /\ ParamReading(req.q.limit).kind = "number"
                  /\ ParamReading(req.q.limit).v > resp.total) =>
        /\ ~resp.hasMore
        /\ EffectivePage = 1 => resp.files = files

\* C8, amended: a limit greater than the number of matching entries and not
\* above the largest page size (100) gives hasMore = false, and page 1 holds
\* all the entries.
C8_LimitAboveTotal ==
    (ListAnswered /\ ParamReading(req.q.limit).kind = "number"
                  /\ ParamReading(req.q.limit).v > resp.total
                  /\ ParamReading(req.q.limit).v <= MaxLimit) =>
        /\ ~resp.hasMore
        /\ EffectivePage = 1 => resp.files = files

\* page 1 of a directory of several entries, asked with a larger limit
C8_Witness ==
    /\ ListAnswered
    /\ ParamReading(req.q.limit).kind = "number"
    /\ ParamReading(req.q.limit).v > resp.total
    /\ ParamReading(req.q.limit).v <= MaxLimit
    /\ resp.total >= 3
    /\ EffectivePage = 1
    /\ resp.files = files
    /\ ~resp.hasMore

\* C9: a missing, non-numeric or non-positive limit becomes the default page
\* size 20 and a limit above 100 becomes 100; a missing, non-numeric or
\* non-positive page becomes 1; so the page size in effect is in 1..100, the
\* page is at least 1 and the offset of the slice is not negative.  (A
\* parameter is numeric when it starts with a decimal numeral, which is the
\* number it stands for.)
C9_LimitAndPageClamped ==
    req.route = "list" =>
        LET limit == ParamReading(req.q.limit)
            page == ParamReading(req.q.page)
        IN /\ (limit.kind # "number" \/ limit.v < 1) => EffectiveLimit = 20
           /\ (limit.kind = "number" /\ limit.v > 100) => EffectiveLimit = 100
           /\ (page.kind # "number" \/ page.v < 1) => EffectivePage = 1
           /\ EffectiveLimit \in 1..100
           /\ EffectivePage >= 1
           /\ (EffectivePage - 1) * EffectiveLimit >= 0
           /\ resp.page = EffectivePage
           /\ resp.status = 200 =>
                Len(resp.files) = Min(EffectiveLimit,
                                      Max(0, resp.total - (EffectivePage - 1) * EffectiveLimit))

\* a request with limit 0 and page -1 got the first 20 entries, and one with
\* limit 150 would get 100
C9_Witness ==
    /\ ListAnswered
    /\ req.q.limit = <<"0">>
    /\ req.q.page = <<"-", "1">>
    /\ resp.page = 1
    /\ Len(resp.files) = 20
    /\ SafeLimit(<<"1", "5", "0">>) = 100

\* 1 for a directory, 2 for a file
TypeRank(item) == IF item.type = "directory" THEN 1 ELSE 2

\* the name with its letters in lower case, as collation weights
FoldedName(item) == PrimaryWeights(ToLowerCase(item.name))

\* a comes strictly before b: by type, then by the folded name, then (the
\* folded names being equal) lower case first
StrictlyBefore(a, b) ==
    \/ TypeRank(a) < TypeRank(b)
    \/ /\ TypeRank(a) = TypeRank(b)
       /\ \/ LexCompare(FoldedName(a), FoldedName(b)) < 0
          \/ /\ FoldedName(a) = FoldedName(b)
             /\ LexCompare(CaseWeights(a.name), CaseWeights(b.name)) < 0

\* the names a listing of the request's directory must hold, whatever the read
ListedNames ==
    {Last(k) : k \in {e \in Range(Entries(fs, ListTarget(ListFilesRoot(env), req.q))) :
                         EntryKept(fs, e, req.q.search)}}

\* C10: in the full ordered result, before it is cut into pages, every
\* directory precedes every file and the entries of one type are in
\* case-independent lexicographic order of their names; the result is the
\* one strictly increasing arrangement of the directory's entries, so it does
\* not depend on the order of the directory read.  For the root holding
\* docs/, a.txt and b.txt, list("/", page 1, limit 2) is [docs, a.txt] with
\* total 3 and hasMore.
C10_DirectoriesFirstThenByName ==
    ListAnswered =>
        /\ \A i, j \in 1..Len(files) :
             i < j => ~(files[i].type = "file" /\ files[j].type = "directory")
        /\ \A i \in 1..(Len(files) - 1) :
             /\ files[i].type = files[i + 1].type =>
                  LexCompare(FoldedName(files[i]), FoldedName(files[i + 1])) <= 0
             /\ StrictlyBefore(files[i], files[i + 1])
        /\ {files[i].name : i \in 1..Len(files)} = ListedNames
        /\ (fs = ExampleFs /\ req.q.path = <<"/">> /\ req.q.page = <<"1">>
            /\ req.q.limit = <<"2">> /\ req.q.search = <<>>) =>
              /\ [i \in 1..Len(resp.files) |-> resp.files[i].name] = <<N_docs, N_a_txt>>
              /\ resp.total = 3
              /\ resp.hasMore

\* the example's request was answered, and a listing of names that differ in
\* case only exists
C10_Witness ==
    /\ ListAnswered
    /\ fs = ExampleFs
    /\ req.q.path = <<"/">> /\ req.q.page = <<"1">> /\ req.q.limit = <<"2">>
    /\ req.q.search = <<>>
    /\ Len(resp.files) = 2
    /\ resp.files[1].type = "directory"
    /\ resp.files[2].name = N_a_txt

\* C15: list fails with its own error for a target that is a file ("Path is
\* not a directory", 400), for a target that does not exist ("Directory not
\* accessible", 404) and for a missing sandbox root ("Root directory not
\* found", 404), and with these errors in no other case; every error
\* response has no entries, total 0 and hasMore false, and no entry of any
\* directory was read for it.
C15_ListErrorKinds ==
    req.route = "list" =>
        LET root == ListFilesRoot(env)
            target == Key(Join(root, ParamOr(req.q.path, <<"/">>)))
            rootMissing == ~Exists(fs, Key(root))
            targetMissing == ~rootMissing /\ ~Exists(fs, target)
            targetIsFile == ~rootMissing /\ Exists(fs, target) /\ fs[target].kind = "file"
            Failed(status, kind) == resp.status = status /\ resp.error.kind = kind
        IN /\ rootMissing <=> Failed(404, "RootNotFound")
           /\ targetMissing <=> Failed(404, "DirNotAccessible")
           /\ targetIsFile <=> Failed(400, "NotADirectory")
           /\ (rootMissing \/ targetMissing \/ targetIsFile) <=> resp.status # 200
           /\ resp.status # 200 =>
                 /\ resp.files = <<>> /\ resp.total = 0 /\ ~resp.hasMore
                 /\ files = <<>>
                 /\ touched \subseteq {Key(root), target}

\* a list request for a file was answered with NotADirectory
C15_Witness ==
    /\ req.route = "list"
    /\ req.q.path = <<"/">> \o N_a_txt
    /\ fs = ExampleFs
    /\ resp.status = 400
    /\ resp.error.kind = "NotADirectory"
    /\ resp.files = <<>>

\* C18: every entry of a list response whose type is directory has size 0.
C18_DirectoriesHaveSizeZero ==
    (req.route = "list" /\ resp.status = 200) =>
        \A i \in 1..Len(resp.files) :
            resp.files[i].type = "directory" => resp.files[i].size = 0

\* two characters that are the same letter, in whichever case
SameLetter(a, b) ==
    a = b \/ \E n \in 1..Len(UpperCase) : {a, b} = {UpperCase[n], LowerCase[n]}

\* the name holds the search string somewhere, the case of letters aside
ContainsFolded(name, search) ==
    \E i \in 0..(Len(name) - Len(search)) :
        \A j \in 1..Len(search) : SameLetter(name[i + j], search[j])

\* the directory entries right below a directory
ChildrenOf(f, dir) == {k \in DOMAIN f : Len(k) = Len(dir) + 1 /\ IsPrefixKey(dir, k)}

\* the children of the directory a list request names that can be statted and
\* pass the route's filters
ListPassing ==
    LET target == Key(Join(ListFilesRoot(env), ParamOr(req.q.path, <<"/">>)))
    IN {k \in ChildrenOf(fs, target) :
           /\ StatOk(fs, k)
           /\ Head(Last(k)) # "."
           /\ req.q.search # <<>> => ContainsFolded(Last(k), req.q.search)}

\* C21: a successful list returns only immediate children of the target
\* directory, none whose name begins with a dot, and with a search string
\* exactly those whose name contains it, letters compared without regard to
\* case; total is the number of the entries that pass.
C21_OnlyFilteredChildrenListed ==
    ListAnswered =>
        /\ {files[i].name : i \in 1..Len(files)} = {Last(k) : k \in ListPassing}
        /\ Len(files) = Cardinality(ListPassing)
        /\ resp.total = Cardinality(ListPassing)

\* the root holding docs/guide.md, a.txt and b.txt was listed with the search
\* string TX: a.txt and b.txt are returned, docs and guide.md are not
C21_Witness ==
    /\ ListAnswered
    /\ fs = ExampleFs
    /\ req.q.path = <<"/">>
    /\ req.q.search = <<"T", "X">>
    /\ req.q.limit = <<>>
    /\ req.q.page = <<>>
    /\ resp.total = 2
    /\ [i \in 1..Len(resp.files) |-> resp.files[i].name] = <<N_a_txt, N_b_txt>>

\* the children of the directory a list request names whose stat fails
ListUnstattable ==
    LET target == Key(Join(ListFilesRoot(env), ParamOr(req.q.path, <<"/">>)))
    IN {k \in ChildrenOf(fs, target) : ~StatOk(fs, k)}

\* C22: when the stat of an entry of the listed directory fails, the request
\* still succeeds; the entry is in neither the result nor total, and every
\* other entry that passes the filters is returned.
C22_UnstattableEntryAloneIsLeftOut ==
    (req.route = "list" /\ ListUnstattable # {}) =>
        /\ resp.status = 200
        /\ \A k \in ListUnstattable : \A i \in 1..Len(files) : files[i].name # Last(k)
        /\ \A k \in ListPassing : \E i \in 1..Len(files) : files[i].name = Last(k)
        /\ resp.total = Cardinality(ListPassing \ ListUnstattable)

\* the root with the broken link lnk was listed: 200, with the four visible
\* entries that can be statted
C22_Witness ==
    /\ req.route = "list"
    /\ fs = HiddenFs
    /\ req.q.path = <<"/">>
    /\ req.q.search = <<>>
    /\ req.q.limit = <<>>
    /\ req.q.page = <<>>
    /\ <<N_r, N_lnk>> \in ListUnstattable
    /\ resp.status = 200
    /\ resp.total = 4
    /\ {resp.files[i].name : i \in 1..Len(resp.files)} = {N_docs, N_a_txt, N_A_txt, N_Ab_txt}

-----------------------------------------------------------------------------
(* Specification SpecUpload: upload requests handled one after another *)

N_a_b_txt == <<"a", "_", "b", ".", "t", "x", "t">>
N_a_b_1_txt == <<"a", "_", "b", "_", "(", "1", ")", ".", "t", "x", "t">>
N_f == <<"f">>

\* /r holds docs/, a_b.txt, a_b_(1).txt and f; the default root is empty
UploadFs ==
    MakeFs({<<>>, <<N_r>>, <<N_r, N_docs>>, <<N_app>>, <<N_app, N_public>>,
            <<N_app, N_public, N_files>>},
           (<<N_r, N_a_b_txt>> :> <<<<"o", 4>>>>) @@
           (<<N_r, N_a_b_1_txt>> :> <<<<"p", 1>>>>) @@
           (<<N_r, N_f>> :> <<<<"q", 2>>>>))

File(name, fill, size) ==
    [name |-> name, size |-> size, data |-> Runs(<<<<fill, size>>>>)]

\* two files of one sanitized name and different bytes, the second of the
\* largest size allowed; a file one byte larger; a type that is not allowed
UploadFiles ==
    {File(<<"a", " ", "b", ".", "t", "x", "t">>, "x", 3),
     File(<<"a", "?", "b", ".", "t", "x", "t">>, "y", MAX_FILE_SIZE),
     File(<<"b", "i", "g", ".", "t", "x", "t">>, "z", MAX_FILE_SIZE + 1),
     File(<<"x", ".", "e", "x", "e">>, "e", 1)}

\* target paths: none given, directories to make, the parent's sibling, a file
UploadPaths ==
    {<<>>, <<"/", "n", "e", "w", "/", "s", "u", "b">>, <<".", ".", "/", "o", "u", "t">>,
     <<"/", "f">>}

Batches(n) == UNION {[1..k -> UploadFiles] : k \in 1..n}

InitUpload ==
    /\ env = <<"/", "r">>
    /\ fs = UploadFs
    /\ QuietInit

\* the files of the requests so far
FilesSoFar == LET Count(r) == IF up[r].pc = "idle" THEN 0 ELSE Len(up[r].items)
              IN Count(1) + Count(2)

\* a request arrives when no other is being handled; MaxBatch files in all
UploadNext ==
    \E r \in Requests :
        /\ \A o \in Requests : up[o].pc \in {"idle", "done"}
        /\ \A o \in Requests : o < r => up[o].pc = "done"
        /\ \E pathRaw \in UploadPaths, items \in Batches(MaxBatch - FilesSoFar) :
             UploadPOST(r, pathRaw, items)

NextUpload ==
    \/ UploadNext
    \/ \E r \in Requests : UploadValidate(r)
    \/ \E r \in Requests : UploadMkdir(r)
    \/ \E r \in Requests : UploadAccess(r)
    \/ \E r \in Requests : UploadRead(r)
    \/ \E r \in Requests : UploadOpen(r)
    \/ \E r \in Requests : UploadWrite(r)

SpecUpload == InitUpload /\ [][NextUpload]_vars

-----------------------------------------------------------------------------
(* Claims about uploads handled one after another (SpecUpload) *)

\* the directory an upload request stores into
UploadDirKey(r) == Key(TargetDir(UploadFilesRoot(env), up[r].path))

\* the location differs from what it was before the uploads
UploadChanged(k) ==
    \/ k \notin DOMAIN UploadFs
    \/ fs[k].kind # UploadFs[k].kind
    \/ fs[k].data # UploadFs[k].data

\* C2: after any sequence of uploads, no directory has been created and no
\* file has been written outside the sandbox root, whatever target paths
\* the requests gave.
C2_UploadsStayInRoot ==
    \A k \in DOMAIN fs : UploadChanged(k) => Within(k, UploadFilesRoot(env))

\* the name with the disambiguator n before the extension; n = 0 is the name
Numbered(name, n) ==
    LET dots == {i \in 1..Len(name) : name[i] = "."}
        d == CHOOSE i \in dots : \A j \in dots : j <= i
    IN IF n = 0 THEN name
       ELSE SubSeq(name, 1, d - 1) \o <<"_", "(">> \o ToDecimal(n) \o <<")">>
                \o SubSeq(name, d, Len(name))

\* the outcomes so far: <<request, index>> of the files reported stored
StoredOutcomes ==
    {o \in Requests \X (1..MaxBatch) :
        /\ up[o[1]].pc # "idle"
        /\ o[2] <= Len(up[o[1]].results)
        /\ up[o[1]].results[o[2]].success}

\* o was processed before p
UploadedBefore(o, p) == o[1] < p[1] \/ (o[1] = p[1] /\ o[2] < p[2])

\* C4: when uploads are processed one after another, a file is never written
\* to a name that exists in the target directory: it goes to the first free
\* one of name, name_(1), name_(2), ... (the number before the extension).
\* Two payloads of one sanitized name are stored as two files of different
\* names, the second with a number, each holding its own bytes, and the
\* files that were there before are unchanged.
C4_SequentialUploadsNeverOverwrite ==
    LET dir == [r \in Requests |-> IF up[r].pc = "idle" THEN <<>> ELSE UploadDirKey(r)]
        safe == [o \in StoredOutcomes |-> SafeFileName(up[o[1]].items[o[2]].name)]
        savedAs == [o \in StoredOutcomes |-> up[o[1]].results[o[2]].savedAs]
    IN /\ \A r \in Requests :
            up[r].pc \in {"read", "open"} =>
               LET name == SafeFileName(up[r].items[up[r].i].name)
                   free == {n \in 0..Cardinality(DOMAIN fs) :
                               ~Exists(fs, Append(dir[r], Numbered(name, n)))}
                   first == CHOOSE n \in free : \A m \in free : n <= m
               IN /\ ~Exists(fs, Key(up[r].finalPath))
                  /\ Key(up[r].finalPath) = Append(dir[r], Numbered(name, first))
       /\ \A o \in StoredOutcomes :
            LET at == Append(dir[o[1]], savedAs[o])
            IN /\ Exists(fs, at)
               /\ fs[at].kind = "file"
               /\ fs[at].data = up[o[1]].items[o[2]].data
       /\ \A o, p \in StoredOutcomes :
            (UploadedBefore(o, p) /\ dir[o[1]] = dir[p[1]]) =>
               /\ savedAs[o] # savedAs[p]
               /\ safe[o] = safe[p] =>
                    \E n \in 1..Cardinality(DOMAIN fs) : savedAs[p] = Numbered(safe[p], n)
       /\ \A k \in DOMAIN UploadFs :
            /\ k \in DOMAIN fs
            /\ fs[k].kind = UploadFs[k].kind
            /\ fs[k].data = UploadFs[k].data

\* "a b.txt" and "a?b.txt" were uploaded in one batch into /r, where a_b.txt
\* and a_b_(1).txt were: they are a_b_(2).txt and a_b_(3).txt
C4_Witness ==
    \E r \in Requests :
        /\ up[r].pc = "done"
        /\ env = <<"/", "r">>
        /\ up[r].path = <<>>
        /\ Len(up[r].results) >= 2
        /\ up[r].results[1].savedAs = <<"a", "_", "b", "_", "(", "2", ")", ".", "t", "x", "t">>
        /\ up[r].results[2].savedAs = <<"a", "_", "b", "_", "(", "3", ")", ".", "t", "x", "t">>
        /\ up[r].items[1].data # up[r].items[2].data
        /\ fs[<<N_r, <<"a", "_", "b", "_", "(", "2", ")", ".", "t", "x", "t">>>>].data = up[r].items[1].data
        /\ fs[<<N_r, <<"a", "_", "b", "_", "(", "3", ")", ".", "t", "x", "t">>>>].data = up[r].items[2].data
        /\ fs[<<N_r, N_a_b_txt>>].data = <<<<"o", 4>>>>

\* the name ends with a dot and an allowed extension, in either case
HasAllowedExtension(name) ==
    LET lower == ToLowerCase(name)
    IN \E e \in ALLOWED_EXTENSIONS :
          /\ Len(lower) > Len(e) + 1
          /\ SubSeq(lower, Len(lower) - Len(e), Len(lower)) = <<".">> \o e

\* C6: in a batch, a rejected file (too large, or of a type not allowed)
\* does not keep the other files from being processed: there is one outcome
\* per file, in order; a file over the maximum size is FileTooLarge, a
\* smaller one of another type is DisallowedType, and every valid file is
\* stored with its bytes (the target directory being one that can be used;
\* where a file is in its way, the valid file's outcome is its own IOFailure).
C6_RejectionsAreIndependent ==
    \A r \in Requests :
        up[r].pc # "idle" =>
           LET u == up[r]
               dir == UploadDirKey(r)
               usable == ~MkdirFails(UploadFs, dir)
           IN /\ u.pc = "done" =>
                   /\ u.status = 200
                   /\ Len(u.results) = Len(u.items)
                   /\ u.successCount = Cardinality({j \in 1..Len(u.results) : u.results[j].success})
                   /\ u.failCount = Len(u.items) - u.successCount
              /\ Len(u.results) <= Len(u.items)
              /\ \A j \in 1..Len(u.results) :
                   LET file == u.items[j]
                       o == u.results[j]
                       small == file.size <= MAX_FILE_SIZE
                       allowed == HasAllowedExtension(file.name)
                   IN /\ o.name = file.name
                      /\ ~small => (~o.success /\ o.error = "FileTooLarge")
                      /\ (small /\ ~allowed) => (~o.success /\ o.error = "DisallowedType")
                      /\ (small /\ allowed /\ usable) =>
                            /\ o.success
                            /\ o.error = "none"
                            /\ fs[Append(dir, o.savedAs)].data = file.data
                      /\ (small /\ allowed /\ ~usable) => (~o.success /\ o.error = "IOFailure")

\* a batch of three: one too large, one of a type not allowed, and between
\* or after them a valid one, which is stored
C6_Witness ==
    \E r \in Requests :
        /\ up[r].pc = "done"
        /\ Len(up[r].results) = 3
        /\ up[r].results[1].error = "FileTooLarge"
        /\ up[r].results[2].error = "DisallowedType"
        /\ up[r].results[3].success
        /\ up[r].successCount = 1
        /\ up[r].failCount = 2
        /\ fs[Append(UploadDirKey(r), up[r].results[3].savedAs)].data = up[r].items[3].data

\* C24: in every upload request the write to the final name is begun by the
\* step that follows the existence check which found that name free: the
\* handler takes no other step of its own (such as reading the payload into
\* memory) between the two.
C24_WriteFollowsTheCheck ==
    [][\A r \in Requests :
          (up[r].pc # "open" /\ up'[r].pc = "open") => up[r].pc = "access"]_vars

-----------------------------------------------------------------------------
(* Specification SpecBatch: one upload request with a batch of files, the   *)
(* handler being run on: each await of the handler is an fs call or a read *)
(* of the form that completes, after which the event loop resumes the      *)
(* handler. A handler that has started and not answered has a next step,   *)
(* and every step changes `up`, so weak fairness of the handler's steps is *)
(* stated as: again and again the handler is not busy or `up` changes.     *)

\* target paths: none given, a directory to make, a file
BatchPaths == {<<>>, <<"/", "n", "e", "w", "/", "s", "u", "b">>, <<"/", "f">>}

UploadBatch ==
    \E pathRaw \in BatchPaths, items \in Batches(MaxBatch) : UploadPOST(1, pathRaw, items)

UploadStep ==
    \E r \in Requests :
        \/ UploadValidate(r)
        \/ UploadMkdir(r)
        \/ UploadAccess(r)
        \/ UploadRead(r)
        \/ UploadOpen(r)
        \/ UploadWrite(r)

NextBatch ==
    \/ UploadBatch
    \/ \E r \in Requests : UploadValidate(r)
    \/ \E r \in Requests : UploadMkdir(r)
    \/ \E r \in Requests : UploadAccess(r)
    \/ \E r \in Requests : UploadRead(r)
    \/ \E r \in Requests : UploadOpen(r)
    \/ \E r \in Requests : UploadWrite(r)

\* the handler of request r has started and has not answered
Busy(r) == up[r].pc \notin {"idle", "done"}

\* WF_vars(UploadStep), for a step that is enabled exactly when Busy(1)
HandlerRunsOn == []<>(~Busy(1)) \/ []<><<Busy(1) /\ up' # up>>_vars

SpecBatch == InitUpload /\ [][NextBatch]_vars /\ HandlerRunsOn

\* where file j of request r stands
FileState(r, j) ==
    LET u == up[r]
    IN IF u.pc = "idle" \/ j > Len(u.items) THEN "None"
       ELSE IF j <= Len(u.results)
       THEN (IF u.results[j].success THEN "Stored"
             ELSE IF u.results[j].error = "IOFailure" THEN "Failed"
             ELSE "Rejected")
       ELSE IF u.pc = "done" THEN "Lost"
       ELSE IF j > u.i THEN "Pending"
       ELSE IF u.pc = "validate" THEN "Validating"
       ELSE "Writing"

FileMoves ==
    {<<"None", "Pending">>, <<"None", "Validating">>, <<"Pending", "Validating">>,
     <<"Validating", "Rejected">>, <<"Validating", "Writing">>,
     <<"Writing", "Stored">>, <<"Writing", "Failed">>}

BatchFiles == {1} \X (1..MaxBatch)

\* a finished batch: one outcome for each file, in the order of the files,
\* and the two counts
BatchAccounted(r) ==
    LET u == up[r]
    IN (u.pc = "done" /\ u.status = 200) =>
          /\ Len(u.results) = Len(u.items)
          /\ \A j \in 1..Len(u.items) : u.results[j].name = u.items[j].name
          /\ u.successCount = Cardinality({j \in 1..Len(u.items) : FileState(r, j) = "Stored"})
          /\ u.failCount =
                Cardinality({j \in 1..Len(u.items) : FileState(r, j) \in {"Rejected", "Failed"}})
          /\ u.successCount + u.failCount = Len(u.items)

\* C20: every file of a batch goes Pending, Validating, then Rejected or
\* Writing, then Stored or Failed, by these steps only and one file at a
\* time; every file reaches one of Rejected, Stored and Failed and stays
\* there, whatever became of the files before it; the finished batch has one
\* outcome for each file in the order of the files, and its successCount and
\* failCount add up to the number of files.
C20_EveryFileReachesOneOutcome ==
    /\ [][\A f \in BatchFiles :
            \/ FileState(f[1], f[2])' = FileState(f[1], f[2])
            \/ <<FileState(f[1], f[2]), FileState(f[1], f[2])'>> \in FileMoves]_vars
    /\ [](\A r \in Requests : BatchAccounted(r))
    /\ \A f \in BatchFiles :
          (FileState(f[1], f[2]) # "None") ~>
              (FileState(f[1], f[2]) \in {"Rejected", "Stored", "Failed"})

\* a finished batch of three whose first file failed to be written (the
\* target path is a file), the second was rejected and the third was still
\* taken up and failed in its turn
C20_Witness ==
    /\ up[1].pc = "done"
    /\ Len(up[1].items) = 3
    /\ FileState(1, 1) = "Failed"
    /\ FileState(1, 2) = "Rejected"
    /\ FileState(1, 3) = "Failed"
    /\ up[1].successCount = 0
    /\ up[1].failCount = 3

-----------------------------------------------------------------------------
(* Specification SpecRace: two upload requests of one file each, at once *)

\* the files the route accepts, and one it rejects
RaceFiles == {f \in UploadFiles : f.size <= MAX_FILE_SIZE}
RacePaths == {<<>>, <<"/", "n", "e", "w", "/", "s", "u", "b">>}

\* the configured roots: absolute, unset
UploadRoots == {<<"/", "r">>, <<>>}

InitRace ==
    /\ env \in UploadRoots
    /\ fs = UploadFs
    /\ QuietInit

\* a request arrives, whatever the other request is doing
UploadArrives ==
    \E r \in Requests, pathRaw \in RacePaths, file \in RaceFiles :
        UploadPOST(r, pathRaw, <<file>>)

NextRace ==
    \/ UploadArrives
    \/ \E r \in Requests : UploadValidate(r)
    \/ \E r \in Requests : UploadMkdir(r)
    \/ \E r \in Requests : UploadAccess(r)
    \/ \E r \in Requests : UploadRead(r)
    \/ \E r \in Requests : UploadOpen(r)
    \/ \E r \in Requests : UploadWrite(r)

SpecRace == InitRace /\ [][NextRace]_vars

\* C5: when two upload requests overlap and store files of one sanitized
\* name into one directory, then once both are answered every upload
\* reported as success has a stored file with exactly its own bytes, and no
\* stored file holds bytes of two uploads.
C5_OverlappingUploadsKeepTheirBytes ==
    (\A r \in Requests : up[r].pc = "done") =>
        /\ \A o \in StoredOutcomes :
             LET at == Append(UploadDirKey(o[1]), up[o[1]].results[o[2]].savedAs)
             IN Exists(fs, at) /\ fs[at].data = up[o[1]].items[o[2]].data
        /\ \A k \in DOMAIN fs :
             UploadChanged(k) => (fs[k].kind = "dir" \/ \E f \in RaceFiles : fs[k].data = f.data)

-----------------------------------------------------------------------------
(* Specification SpecZip: archives of lists of paths *)

\* most paths of one zip request
MaxZipPaths == 2

N_secret == <<"s", "e", "c", "r", "e", "t">>
N_key == <<"k", "e", "y">>
N_o == <<"o">>

ZipRoots == {<<"/", "r">>, <<>>}

\* below /r: a.txt, docs/guide.md and docs/b.txt; beside it: the file /secret and the
\* directory /o with the file key; the same below and beside the default root
ZipFs ==
    MakeFs({<<>>, <<N_r>>, <<N_r, N_docs>>, <<N_o>>, <<N_app>>, <<N_app, N_public>>,
            <<N_app, N_public, N_files>>, <<N_app, N_public, N_o>>},
           (<<N_r, N_a_txt>> :> <<<<"a", 3>>>>) @@
           (<<N_r, N_docs, N_guide_md>> :> <<<<"g", 7>>>>) @@
           (<<N_r, N_docs, N_b_txt>> :> <<<<"b", 1>>>>) @@
           (<<N_secret>> :> <<<<"s", 9>>>>) @@
           (<<N_o, N_key>> :> <<<<"k", 2>>>>) @@
           (<<N_app, N_public, N_files, N_a_txt>> :> <<<<"a", 3>>>>) @@
           (<<N_app, N_public, N_secret>> :> <<<<"s", 9>>>>) @@
           (<<N_app, N_public, N_o, N_key>> :> <<<<"k", 2>>>>))

ZipPathStrings ==
    {<<"/", "a", ".", "t", "x", "t">>, <<"a", ".", "t", "x", "t">>, <<"/", "d", "o", "c", "s">>, <<"/", "g", "o", "n", "e">>, <<"/">>,
     <<"/", "d", "o", "c", "s", "/", "g", "u", "i", "d", "e", ".", "m", "d">>, <<".", ".", "/", "s", "e", "c", "r", "e", "t">>, <<"/", ".", ".", "/", "o">>}

ZipPathLists == UNION {[1..n -> ZipPathStrings] : n \in 0..MaxZipPaths}

InitZip ==
    /\ env \in ZipRoots
    /\ fs = ZipFs
    /\ QuietInit

ZipAny == \E paths \in ZipPathLists : ZipPOST(paths)

\* the file a.txt of the root may be removed by another process at any time
ZipRemoveAny == ZipRemove(Key(Join(ZipFilesRoot(env), N_a_txt)))

NextZip ==
    \/ ZipAny
    \/ ZipAddPath
    \/ ZipFinalize
    \/ ZipTakeTask
    \/ ZipOpenSource
    \/ ZipReadChunk
    \/ ZipCloseSource
    \/ ZipWriteDirectory
    \/ ZipEnd
    \/ ZipRemoveAny
    \/ ZipDone

SpecZip == InitZip /\ [][NextZip]_vars

\* C3: every path given to archive is confined to the sandbox root before it
\* is stat-ed or read, and every file added to the archive lies below the
\* root: the archive never holds a file from outside the sandbox root.
C3_ArchiveStaysInRoot ==
    req.route = "zip" =>
        /\ \A k \in touched : Within(k, ZipFilesRoot(env))
        /\ \A i \in 1..Len(zip.entries) : Within(zip.entries[i].source, ZipFilesRoot(env))

\* the place a path of the request stands for
ZipKeyOf(n) == Key(Join(ZipFilesRoot(env), req.paths[n]))

\* the files a path of the request stands for on file system f: the file
\* itself, or every file below the directory
ZipSourcesOf(f, n) ==
    LET k == ZipKeyOf(n)
    IN IF ~StatOk(f, k) THEN {}
       ELSE IF IsDir(f, k) THEN Range(FilesBelow(f, k))
       ELSE {k}

ZipEntrySources == {zip.entries[i].source : i \in 1..Len(zip.entries)}
ZipEntryNames == {zip.entries[i].name : i \in 1..Len(zip.entries)}

RootRelative(key) ==
    JoinSegments(SubSeq(key, Len(Key(ZipFilesRoot(env))) + 1, Len(key)))

\* the entries of the archive that come from one source file
ZipEntriesFrom(src) == {i \in 1..Len(zip.entries) : zip.entries[i].source = src}

\* the paths of the request that lie in the root
ZipPathsInRoot == {n \in 1..Len(req.paths) : Within(ZipKeyOf(n), ZipFilesRoot(env))}

\* the name the final segment of path n gives to source src
FinalSegmentName(n, src) ==
    LET k == ZipKeyOf(n)
        top == IF k = Key(ZipFilesRoot(env)) THEN <<>> ELSE Last(k)
        rest == JoinSegments(SubSeq(src, Len(k) + 1, Len(src)))
    IN IF src = k THEN top
       ELSE IF top = <<>> THEN rest
       ELSE top \o <<"/">> \o rest

\* C12 as stated: every entry of a path in the root is named by the path's
\* final segment, with the structure below a directory kept under it.
C12_Original ==
    (req.route = "zip" /\ resp.status = 200) =>
        \A i \in 1..Len(zip.entries) :
            \E n \in 1..Len(req.paths) :
                /\ zip.entries[i].source \in ZipSourcesOf(ZipFs, n)
                /\ n \in ZipPathsInRoot =>
                      zip.entries[i].name = FinalSegmentName(n, zip.entries[i].source)

\* C12: every entry of a path in the root, at any depth, is named by the
\* root-relative path of its source file: the requested path without its
\* leading slash for a file, and that of the directory followed by the path
\* below it for a file of a directory. The finished archive holds one entry
\* for every file of every requested path and no other entry.
C12_EntriesNamedByRootRelativePath ==
    (req.route = "zip" /\ resp.status = 200) =>
        /\ \A i \in 1..Len(zip.entries) :
              LET e == zip.entries[i]
              IN /\ \E n \in 1..Len(req.paths) : e.source \in ZipSourcesOf(ZipFs, n)
                 /\ Within(e.source, ZipFilesRoot(env)) => e.name = RootRelative(e.source)
                 /\ e.data = ZipFs[e.source].data
        /\ (zip.pc = "done" /\ ~zip.vanished) =>
              \A n \in ZipPathsInRoot : \A src \in ZipSourcesOf(fs, n) :
                  Cardinality(ZipEntriesFrom(src)) =
                      Cardinality({m \in 1..Len(req.paths) : src \in ZipSourcesOf(fs, m)})

\* the archive over [a.txt, docs], docs holding b.txt and guide.md
C12_Witness ==
    /\ req.route = "zip"
    /\ req.paths = <<<<"/", "a", ".", "t", "x", "t">>, <<"/", "d", "o", "c", "s">>>>
    /\ zip.skipped = {}
    /\ zip.pc = "done"
    /\ zip.stream = "closed"
    /\ Len(zip.entries) = 3
    /\ ZipEntryNames = {<<"a", ".", "t", "x", "t">>,
                        <<"d", "o", "c", "s", "/", "b", ".", "t", "x", "t">>,
                        <<"d", "o", "c", "s", "/", "g", "u", "i", "d", "e", ".", "m", "d">>}

\* C23: once the response stream, to which chunks have been given, is closed
\* or has been put in the errored state by an archive error, no listener of
\* the archiver calls the controller again: no call of enqueue, and no call
\* of the other of close and error.
C23_NoControllerCallAfterTheEnd ==
    (req.route = "zip" /\ zip.delivered /\ StreamOver(zip)) => zip.refused = {}

-----------------------------------------------------------------------------
(* Specification SpecStream: the archive stream and the client that reads  *)
(* it, reads it slowly, or disconnects                                      *)

StreamPathStrings ==
    {<<"/", "a", ".", "t", "x", "t">>, <<"/", "d", "o", "c", "s">>, <<"/">>}

StreamPathLists == UNION {[1..n -> StreamPathStrings] : n \in 0..MaxZipPaths}

InitStream ==
    /\ env = <<"/", "r">>
    /\ fs = ZipFs
    /\ QuietInit

ZipStreamAny == \E paths \in StreamPathLists : ZipPOST(paths)

NextStream ==
    \/ ZipStreamAny
    \/ ZipAddPath
    \/ ZipFinalize
    \/ ZipTakeTask
    \/ ZipOpenSource
    \/ ZipReadChunk
    \/ ZipCloseSource
    \/ ZipWriteDirectory
    \/ ZipEnd
    \/ ZipConsume
    \/ ZipCancel
    \/ ZipDone

SpecStream == InitStream /\ [][NextStream]_vars

\* C16: the archiver is paced by the client: the chunks produced and not
\* yet read by the client never number more than the stream's high-water
\* mark and the one chunk being handed over, however large the selection.
C16_ProducerPacedByConsumer ==
    req.route = "zip" => zip.pending <= HighWaterMark + 1

\* C17: once the client has cancelled the response stream, the archiver
\* opens no further source file and produces no further chunk, and it holds
\* no source file open when it has stopped.
C17_CancelStopsTheArchiver ==
    (req.route = "zip" /\ zip.stream = "cancelled") =>
        /\ ~zip.lateOpen
        /\ ~zip.lateChunk
        /\ (zip.halted \/ zip.ended) => zip.opened = {}

-----------------------------------------------------------------------------
(* Specification SpecNames: one file of any name is uploaded               *)

\* most characters of a file name before its extension
MaxNameLen == 3

NameAlphabet == {"a", "b", "/", "\\", ".", "U+AC00"}

NameStems == UNION {[1..n -> NameAlphabet] : n \in 0..MaxNameLen}

\* the names with the extension .txt, and the same without it
UploadNames == NameStems \cup {stem \o <<".", "t", "x", "t">> : stem \in NameStems}

NamePaths == {<<>>, <<"/">> \o N_docs}

InitNames ==
    /\ env = <<"/", "r">>
    /\ fs = UploadFs
    /\ QuietInit

UploadNamed ==
    \E name \in UploadNames, pathRaw \in NamePaths :
        UploadPOST(1, pathRaw, <<File(name, "n", 2)>>)

NextNames ==
    \/ UploadNamed
    \/ \E r \in Requests : UploadValidate(r)
    \/ \E r \in Requests : UploadMkdir(r)
    \/ \E r \in Requests : UploadAccess(r)
    \/ \E r \in Requests : UploadRead(r)
    \/ \E r \in Requests : UploadOpen(r)
    \/ \E r \in Requests : UploadWrite(r)

SpecNames == InitNames /\ [][NextNames]_vars

\* the name with every character outside the safe set replaced by "_"
Placeheld(name) ==
    [i \in 1..Len(name) |-> IF name[i] \in SafeNameChars THEN name[i] ELSE "_"]

\* the stored names of the files reported stored by request 1, by index
NamesStoredAs ==
    IF up[1].pc = "idle" THEN <<>>
    ELSE [j \in 1..Len(up[1].results) |->
            IF up[1].results[j].success THEN up[1].results[j].savedAs ELSE <<>>]

\* C19 as stated: the stored name is made of characters of the safe set only.
C19_Original ==
    \A j \in 1..Len(NamesStoredAs) : Range(NamesStoredAs[j]) \subseteq SafeNameChars

\* C19: the name a file is stored under is its name with every character
\* outside the safe set replaced by "_", or, when that name is taken, the
\* same with _(n) before the extension; it holds no path separator and is
\* not "." or "..", and the file stored is an immediate child of the target
\* directory and holds the uploaded bytes.
C19_StoredNameIsSanitized ==
    \A j \in 1..Len(NamesStoredAs) :
        up[1].results[j].success =>
            LET name == up[1].items[j].name
                clean == Placeheld(name)
                stored == NamesStoredAs[j]
            IN /\ Len(clean) = Len(name)
               /\ Range(clean) \subseteq SafeNameChars
               /\ \/ stored = clean
                  \/ \E n \in 1..Cardinality(DOMAIN fs) :
                        /\ stored = Numbered(clean, n)
                        /\ Exists(UploadFs, Append(UploadDirKey(1), clean))
               /\ "/" \notin Range(stored) /\ "\\" \notin Range(stored)
               /\ stored \notin {<<".">>, DotDot}
               /\ Exists(fs, Append(UploadDirKey(1), stored))
               /\ fs[Append(UploadDirKey(1), stored)].data = up[1].items[j].data

\* the file "a/\.txt" was stored as a__.txt in the target directory
C19_Witness ==
    /\ up[1].pc = "done"
    /\ up[1].items[1].name = <<"a", "/", "\\", ".", "t", "x", "t">>
    /\ up[1].results[1].success
    /\ up[1].results[1].savedAs = <<"a", "_", "_", ".", "t", "x", "t">>

-----------------------------------------------------------------------------
(* Specification SpecValidate: one file of any size and type is uploaded    *)

\* sizes around the maximum
ValidateSizes == {0, 1, MAX_FILE_SIZE - 1, MAX_FILE_SIZE, MAX_FILE_SIZE + 1, 2 * MAX_FILE_SIZE}

\* names of allowed types in either case, of types not allowed, without an
\* extension, and with an allowed type's letters elsewhere than at the end
ValidateNames ==
    {N_a_txt,
     <<"A", ".", "T", "X", "T">>,
     <<"a", ".", "M", "d">>,
     <<"a", ".", "z", "i", "p">>,
     <<"x", ".", "e", "x", "e">>,
     <<"a", ".", "t", "x", "t", ".", "s", "h">>,
     <<"a", ".", "s", "h", ".", "t", "x", "t">>,
     <<"t", "x", "t">>,
     <<".", "t", "x", "t">>,
     <<"a", ".", "t", "x">>,
     <<"a", ".">>,
     <<"a">>}

UploadSized ==
    \E name \in ValidateNames, size \in ValidateSizes, pathRaw \in NamePaths :
        UploadPOST(1, pathRaw, <<File(name, "v", size)>>)

NextValidate ==
    \/ UploadSized
    \/ \E r \in Requests : UploadValidate(r)
    \/ \E r \in Requests : UploadMkdir(r)
    \/ \E r \in Requests : UploadAccess(r)
    \/ \E r \in Requests : UploadRead(r)
    \/ \E r \in Requests : UploadOpen(r)
    \/ \E r \in Requests : UploadWrite(r)

SpecValidate == InitNames /\ [][NextValidate]_vars

\* the part of a name after its last dot, a dot that is neither the first nor
\* the last character of the name; <<>> for a name without such a dot
TypeOf(name) ==
    LET dots == {i \in 2..(Len(name) - 1) : name[i] = "."}
    IN IF dots = {} THEN <<>>
       ELSE SubSeq(name, (CHOOSE i \in dots : \A j \in dots : j <= i) + 1, Len(name))

\* the type is one of the allow-list, letters compared without regard to case
TypeAllowed(name) ==
    \E e \in ALLOWED_EXTENSIONS :
        /\ Len(e) = Len(TypeOf(name))
        /\ \A i \in 1..Len(e) : SameLetter(e[i], TypeOf(name)[i])

\* C25: validation looks at the size first and at the extension second: a
\* file larger than the maximum is FileTooLarge whatever its extension; a file
\* of at most the maximum whose extension, in whichever case, is not in the
\* allow-list is DisallowedType; every other file passes validation and goes
\* on to be stored.
C25_SizeFirstThenType ==
    up[1].pc # "idle" =>
        LET u == up[1]
            file == u.items[1]
            tooLarge == file.size > MAX_FILE_SIZE
            refusedType == ~tooLarge /\ ~TypeAllowed(file.name)
            Outcome(kind) == /\ u.pc \in {"validate", "done"}
                             /\ u.pc = "done" => /\ Len(u.results) = 1
                                                 /\ ~u.results[1].success
                                                 /\ u.results[1].error = kind
        IN /\ tooLarge => Outcome("FileTooLarge")
           /\ refusedType => Outcome("DisallowedType")
           /\ (~tooLarge /\ ~refusedType /\ u.pc = "done") =>
                 /\ u.results[1].success
                 /\ u.results[1].size = file.size

\* x.exe of twice the maximum size was refused as too large, not for its type
C25_Witness ==
    /\ up[1].pc = "done"
    /\ up[1].items[1].name = <<"x", ".", "e", "x", "e">>
    /\ up[1].items[1].size = 2 * MAX_FILE_SIZE
    /\ up[1].results[1].error = "FileTooLarge"
    /\ fs = UploadFs

-----------------------------------------------------------------------------
(* Claims about what an upload batch does to the filesystem (SpecBatch)     *)

\* file j of request 1 is one that validation lets through
PassesValidation(j) ==
    /\ up[1].items[j].size <= MAX_FILE_SIZE
    /\ TypeAllowed(up[1].items[j].name)

\* C26: a batch whose files are all rejected by validation leaves the
\* filesystem as it was: no directory is made and no file written. The
\* filesystem changes only once a file that passed validation is at hand,
\* and the target directory exists whenever such a file's name is looked up
\* or the file is written.
C26_DirectoryMadeOnlyForValidFiles ==
    up[1].pc # "idle" =>
        LET u == up[1]
            dir == UploadDirKey(1)
        IN /\ (\A j \in 1..Len(u.items) : ~PassesValidation(j)) => fs = UploadFs
           /\ fs # UploadFs => \E j \in 1..Min(u.i, Len(u.items)) : PassesValidation(j)
           /\ u.pc \in {"access", "read", "open", "write"} => IsDir(fs, dir)
           /\ \A j \in 1..Len(u.results) :
                 u.results[j].success =>
                    /\ IsDir(fs, dir)
                    /\ Exists(fs, Append(dir, u.results[j].savedAs))

\* a batch of a file too large and one of a type not allowed, for the
\* directory /new/sub that does not exist, was answered: nothing was made
C26_Witness ==
    /\ up[1].pc = "done"
    /\ up[1].path = <<"/", "n", "e", "w", "/", "s", "u", "b">>
    /\ Len(up[1].items) = 2
    /\ up[1].results[1].error = "FileTooLarge"
    /\ up[1].results[2].error = "DisallowedType"
    /\ up[1].failCount = 2
    /\ fs = UploadFs
    /\ ~Exists(fs, <<N_r, <<"n", "e", "w">>>>)

-----------------------------------------------------------------------------
(* Specification SpecDemo: list requests under several configured roots     *)

N_demo == <<"d", "e", "m", "o">>
N_documents == <<"d", "o", "c", "u", "m", "e", "n", "t", "s">>
N_readme_txt == <<"r", "e", "a", "d", "m", "e", ".", "t", "x", "t">>

\* the roots configured: ./public and other spellings of the same
\* directory, its subdirectory files, /r, and none
DemoRoots ==
    {DemoRoot, N_public, <<"/">> \o N_app \o <<"/">> \o N_public,
     <<".", "/", "p", "u", "b", "l", "i", "c", "/", "f", "i", "l", "e", "s">>, ListRoot, <<>>}

\* /app/public with files/a.txt, and /r
DemoFsPlain ==
    MakeFs({<<>>, <<N_r>>, <<N_app>>, <<N_app, N_public>>, <<N_app, N_public, N_files>>},
           (<<N_app, N_public, N_files, N_a_txt>> :> <<<<"a", 3>>>>)
           @@ (<<N_r, N_a_txt>> :> <<<<"a", 3>>>>))

\* the same with demo/ holding a readme.txt of its own and a file named
\* documents
DemoFsTaken ==
    MakeFs({<<>>, <<N_r>>, <<N_app>>, <<N_app, N_public>>, <<N_app, N_public, N_files>>,
            <<N_app, N_public, N_demo>>},
           (<<N_app, N_public, N_files, N_a_txt>> :> <<<<"a", 3>>>>)
           @@ (<<N_r, N_a_txt>> :> <<<<"a", 3>>>>)
           @@ (<<N_app, N_public, N_demo, N_readme_txt>> :> <<<<"m", 5>>>>)
           @@ (<<N_app, N_public, N_demo, N_documents>> :> <<<<"n", 1>>>>))

\* a working directory without public/
DemoFsBare == MakeFs({<<>>, <<N_r>>, <<N_app>>}, (<<N_r, N_a_txt>> :> <<<<"a", 3>>>>))

DemoSnapshots == {DemoFsPlain, DemoFsTaken, DemoFsBare}

DemoPaths == {<<>>, <<"/">> \o N_demo, <<"/">> \o N_demo \o <<"/">> \o N_documents,
              <<"/">> \o N_files, <<"/", "x">>}

InitDemo ==
    /\ env \in DemoRoots
    /\ fs \in DemoSnapshots
    /\ QuietInit

ListAnyDemo ==
    \E p \in DemoPaths, s \in ListSearches, l \in {<<>>, <<"1">>} :
        ListGET([path |-> p, page |-> <<>>, limit |-> l, search |-> s])

NextDemo == ListAnyDemo \/ RequestDone

SpecDemo == InitDemo /\ [][NextDemo]_vars

\* C27: list is read-only: whatever the configured root and the request, no
\* list request makes, changes or removes a file or a directory.
C27_ListIsReadOnly == [][req'.route = "list" => fs' = fs]_vars

-----------------------------------------------------------------------------
(* Specification SpecMirror: a file is uploaded, and then its directory is  *)
(* listed page after page                                                   *)

\* the root configured, and not configured
MirrorRoots == {ListRoot, <<>>}

\* names of an allowed type: plain, with a character to replace, with the
\* name of a file that exists, with a dot first, and with two
MirrorNames ==
    {N_a_txt,
     <<"a", " ", "b", ".", "t", "x", "t">>,
     <<"U+AC00", ".", "m", "d">>,
     <<".", "a", ".", "t", "x", "t">>,
     <<".", ".", "t", "x", "t">>}

MirrorSizes == {0, 2}

MirrorPaths == {<<>>, <<"/">> \o N_docs, <<"/", "n", "e", "w", "/", "s", "u", "b">>}

InitMirror ==
    /\ env \in MirrorRoots
    /\ fs = UploadFs
    /\ QuietInit

UploadMirrored ==
    \E name \in MirrorNames, size \in MirrorSizes, pathRaw \in MirrorPaths :
        UploadPOST(1, pathRaw, <<File(name, "m", size)>>)

\* the explorer opens the directory of the upload that was answered:
\* fetchFiles(currentPath, 1)
MirrorStart ==
    /\ req = NoRequest
    /\ up[1].pc = "done"
    /\ ~pager.on
    /\ \E l \in {<<>>, <<"2">>} :
         LET q == [path |-> up[1].path, page |-> ToDecimal(1), limit |-> l, search |-> <<>>]
         IN /\ \E after \in {AfterDemoFiles(fs, ListFilesRoot(env))} :
                 \E entries \in ListReads(after, ListFilesRoot(env), q) :
                    ListRun(q, entries, ListFilesArray(after, q, entries))
            /\ pager' = PagerAfter(q, 1, FALSE)

NextMirror ==
    \/ UploadMirrored
    \/ \E r \in Requests : UploadValidate(r)
    \/ \E r \in Requests : UploadMkdir(r)
    \/ \E r \in Requests : UploadAccess(r)
    \/ \E r \in Requests : UploadRead(r)
    \/ \E r \in Requests : UploadOpen(r)
    \/ \E r \in Requests : UploadWrite(r)
    \/ MirrorStart
    \/ PagerLoadMore
    \/ RequestDone

SpecMirror == InitMirror /\ [][NextMirror]_vars

\* C28: when upload has reported a file stored under a name in a directory
\* and that directory is then listed without a search string and read to its
\* last page, the pages hold an entry of that name, of type file and of the
\* uploaded size, whatever name was uploaded and whether or not the root is
\* configured.
C28_StoredFileIsListed ==
    (/\ up[1].pc = "done"
     /\ up[1].results[1].success
     /\ pager.on
     /\ ~pager.hasMore) =>
        \E i \in 1..Len(pager.files) :
            /\ pager.files[i].name = up[1].results[1].savedAs
            /\ pager.files[i].type = "file"
            /\ pager.files[i].size = up[1].items[1].size

-----------------------------------------------------------------------------
(* The authentication gate: middleware.ts                                   *)

\* the alternatives of the negative lookahead of config.matcher, a dot
\* standing for any character
MatcherExclusions ==
    {<<"_", "n", "e", "x", "t", "/", "s", "t", "a", "t", "i", "c">>,
     <<"_", "n", "e", "x", "t", "/", "i", "m", "a", "g", "e">>,
     <<"f", "a", "v", "i", "c", "o", "n", ".", "i", "c", "o">>,
     <<"a", "p", "i", "/", "a", "u", "t", "h">>,
     <<"b", "r", "o", "w", "s", "e", "r", "-", "s", "y", "n", "c">>}

\* the regular expression `pattern` matches at the start of s
MatchesAtStart(s, pattern) ==
    /\ Len(pattern) <= Len(s)
    /\ \A i \in 1..Len(pattern) : pattern[i] = "." \/ pattern[i] = s[i]

\* config.matcher: '/((?!_next/static|_next/image|favicon.ico|api/auth|browser-sync).*)'
MatcherMatches(pathname) ==
    /\ StartsWith(pathname, <<"/">>)
    /\ \A pattern \in MatcherExclusions : ~MatchesAtStart(Tail(pathname), pattern)

LoginPath == <<"/", "l", "o", "g", "i", "n">>

\* a middleware that lets pass every path with /login anywhere in it
MiddlewareLoginAnywhere(pathname, isAuthenticated) ==
    IF Includes(pathname, LoginPath) THEN [action |-> "next", location |-> <<>>]
    ELSE IF ~isAuthenticated THEN [action |-> "redirect", location |-> LoginPath]
    ELSE [action |-> "next", location |-> <<>>]

\* middleware(request), isAuthenticated being request.cookies.has('auth_token')
Middleware(pathname, isAuthenticated) ==
    IF StartsWith(pathname, LoginPath) THEN [action |-> "next", location |-> <<>>]
    ELSE IF ~isAuthenticated THEN [action |-> "redirect", location |-> LoginPath]
    ELSE [action |-> "next", location |-> <<>>]

\* the paths the explorer requests the four routes by
RoutePaths ==
    (<<"/", "a", "p", "i", "/", "f", "i", "l", "e", "s">> :> "list")
    @@ (<<"/", "a", "p", "i", "/", "d", "o", "w", "n", "l", "o", "a", "d">> :> "download")
    @@ (<<"/", "a", "p", "i", "/", "u", "p", "l", "o", "a", "d">> :> "upload")
    @@ (<<"/", "a", "p", "i", "/", "d", "o", "w", "n", "l", "o", "a", "d", "/", "z", "i", "p">> :> "zip")

\* the route handler a request is given to: none when the middleware, run
\* for the paths its matcher matches, answers with a redirect
HandlerReached(pathname, isAuthenticated) ==
    IF MatcherMatches(pathname) /\ Middleware(pathname, isAuthenticated).action = "redirect"
    THEN "none"
    ELSE IF pathname \in DOMAIN RoutePaths THEN RoutePaths[pathname]
    ELSE "other"

\* a request arrives: the middleware runs if the matcher matches
GateRequest(pathname, isAuthenticated) ==
    /\ req = NoRequest
    /\ req' = [route |-> "gate", pathname |-> pathname, cookie |-> isAuthenticated]
    /\ resp' = IF MatcherMatches(pathname)
               THEN [status |-> 0, matched |-> TRUE,
                     middleware |-> Middleware(pathname, isAuthenticated),
                     handler |-> HandlerReached(pathname, isAuthenticated)]
               ELSE [status |-> 0, matched |-> FALSE,
                     middleware |-> [action |-> "none", location |-> <<>>],
                     handler |-> HandlerReached(pathname, isAuthenticated)]
    /\ UNCHANGED <<env, fs, files, touched, pager, up, zip>>

\* the request has been passed on or answered
GateDone ==
    /\ req # NoRequest
    /\ req.route = "gate"
    /\ req' = NoRequest
    /\ resp' = NoResponse
    /\ UNCHANGED <<env, fs, files, touched, pager, up, zip>>

-----------------------------------------------------------------------------
(* Specification SpecGate: requests with and without the cookie            *)

GateSegments ==
    {<<"l", "o", "g", "i", "n">>,
     <<"l", "o", "g", "i", "n", "x">>,
     <<"a", "p", "i">>,
     <<"f", "i", "l", "e", "s">>,
     <<"u", "p", "l", "o", "a", "d">>,
     <<"d", "o", "w", "n", "l", "o", "a", "d">>,
     <<"z", "i", "p">>,
     <<"a", "u", "t", "h">>,
     <<"_", "n", "e", "x", "t">>,
     <<"s", "t", "a", "t", "i", "c">>,
     <<"i", "m", "a", "g", "e">>,
     <<"f", "a", "v", "i", "c", "o", "n", ".", "i", "c", "o">>,
     <<"f", "a", "v", "i", "c", "o", "n", "x", "i", "c", "o">>,
     <<"b", "r", "o", "w", "s", "e", "r", "-", "s", "y", "n", "c">>,
     <<"x">>}

\* paths of one, two and (below /api/download) three segments
GatePathnames ==
    {<<"/">>}
    \cup {<<"/">> \o a : a \in GateSegments}
    \cup {<<"/">> \o a \o <<"/">> \o b : a \in GateSegments, b \in GateSegments}
    \cup {<<"/", "a", "p", "i", "/", "d", "o", "w", "n", "l", "o", "a", "d", "/">> \o b : b \in GateSegments}

InitGate ==
    /\ env = ListRoot
    /\ fs = ExampleFs
    /\ QuietInit

GateAny == \E pathname \in GatePathnames, cookie \in BOOLEAN : GateRequest(pathname, cookie)

NextGate == GateAny \/ GateDone

SpecGate == InitGate /\ [][NextGate]_vars

\* the path begins with one of the prefixes the matcher leaves out
LeftOutByMatcher(pathname) ==
    \E pattern \in MatcherExclusions :
        /\ Len(pathname) > Len(pattern)
        /\ \A i \in 1..Len(pattern) : pattern[i] \in {".", pathname[i + 1]}

-----------------------------------------------------------------------------
(* The file explorer page: fetchFiles and the handlers that call it         *)

\* settings.pageLimit, written as pageLimit.toString()
ExplorerLimit == <<"2">>

\* the requests the page may have in flight at once
MaxInFlight == 2

\* the URLSearchParams fetchFiles builds
ExplorerQuery(path, page, search) ==
    [path |-> path, page |-> ToDecimal(page), limit |-> ExplorerLimit, search |-> search]

\* fetchFiles up to its await: setLoading(true), setError(null), fetch
FetchSent(state, path, page, search, append) ==
    LET sent == [q |-> ExplorerQuery(path, page, search), append |-> append]
    IN [state EXCEPT !.loading = TRUE,
                     !.inflight = Append(@, sent),
                     !.latest = sent]

\* currentPath.split("/").slice(0, -1).join("/") || "/"
ParentPath(currentPath) ==
    LET joined == JoinSegments(Front(Split(currentPath)))
    IN IF joined = <<>> THEN <<"/">> ELSE joined

\* fetchFiles after its await: setFiles of the try block or of the catch
FilesAfter(state, i, response) ==
    IF response.status # 200 THEN <<>>
    ELSE IF state.inflight[i].append THEN state.files \o response.files
    ELSE response.files

\* the effect on [currentPath, searchTerm, viewMode, fetchFiles]:
\* setCurrentPage(1), setFiles([]), fetchFiles(currentPath, 1)
ExplorerEffect(path, search) ==
    /\ pager.on
    /\ Len(pager.inflight) < MaxInFlight
    /\ <<path, search>> # <<pager.currentPath, pager.searchTerm>>
    /\ pager' = FetchSent([pager EXCEPT !.currentPath = path, !.searchTerm = search,
                                        !.currentPage = 1, !.files = <<>>],
                          path, 1, search, FALSE)
    /\ UNCHANGED <<env, fs, req, resp, files, touched, up, zip>>

\* handleFolderClick(file.path) on a directory shown
ExplorerFolderClick ==
    /\ pager.on
    /\ \E i \in 1..Len(pager.files) :
         /\ pager.files[i].type = "directory"
         /\ ExplorerEffect(pager.files[i].path, pager.searchTerm)

\* handleBackClick
ExplorerBackClick ==
    /\ pager.on
    /\ ExplorerEffect(ParentPath(pager.currentPath), pager.searchTerm)

\* setSearchTerm(e.target.value)
ExplorerSearch(term) ==
    /\ pager.on
    /\ ExplorerEffect(pager.currentPath, term)

\* handlePageChange(page)
ExplorerPageChange(page) ==
    /\ pager.on
    /\ Len(pager.inflight) < MaxInFlight
    /\ pager' = FetchSent([pager EXCEPT !.currentPage = page],
                          pager.currentPath, page, pager.searchTerm, FALSE)
    /\ UNCHANGED <<env, fs, req, resp, files, touched, up, zip>>

\* handleLoadMore
ExplorerLoadMore ==
    /\ pager.on
    /\ Len(pager.inflight) < MaxInFlight
    /\ pager.hasMore
    /\ ~pager.loading
    /\ pager' = FetchSent([pager EXCEPT !.currentPage = @ + 1],
                          pager.currentPath, pager.currentPage + 1, pager.searchTerm, TRUE)
    /\ UNCHANGED <<env, fs, req, resp, files, touched, up, zip>>

\* the response to the i-th request in flight arrives (the route having
\* handled it): fetchFiles goes on after its await, to its finally
ExplorerReceive(i) ==
    /\ pager.on
    /\ i \in 1..Len(pager.inflight)
    /\ \E after \in {AfterDemoFiles(fs, ListFilesRoot(env))} :
         \E entries \in ListReads(after, ListFilesRoot(env), pager.inflight[i].q) :
            ListRun(pager.inflight[i].q, entries,
                    ListFilesArray(after, pager.inflight[i].q, entries))
    /\ pager' = [pager EXCEPT
                   !.inflight = SubSeq(@, 1, i - 1) \o SubSeq(@, i + 1, Len(@)),
                   !.files = FilesAfter(pager, i, resp'),
                   !.hasMore = IF resp'.status = 200 THEN resp'.hasMore ELSE @,
                   !.loading = FALSE]

-----------------------------------------------------------------------------
(* Specification SpecExplorer: the page over the example directory, its     *)
(* responses arriving in any order                                          *)

ExplorerPages == {1, 2}

\* the page after its first render: the effect has called fetchFiles("/", 1)
InitExplorer ==
    /\ env = ListRoot
    /\ fs = ExampleFs
    /\ req = NoRequest
    /\ resp = NoResponse
    /\ files = <<>>
    /\ touched = {}
    /\ up = [r \in Requests |-> UploadIdle]
    /\ zip = NoZip
    /\ pager = FetchSent([on |-> TRUE, currentPath |-> <<"/">>, searchTerm |-> <<>>,
                          currentPage |-> 1, files |-> <<>>, hasMore |-> FALSE,
                          loading |-> FALSE, inflight |-> <<>>,
                          latest |-> [q |-> ExplorerQuery(<<"/">>, 1, <<>>),
                                      append |-> FALSE]],
                         <<"/">>, 1, <<>>, FALSE)

ExplorerSearchAny == \E term \in ListSearches : ExplorerSearch(term)

ExplorerPageChangeAny == \E page \in ExplorerPages : ExplorerPageChange(page)

ExplorerReceiveAny == \E i \in 1..MaxInFlight : ExplorerReceive(i)

NextExplorer ==
    \/ ExplorerFolderClick
    \/ ExplorerBackClick
    \/ ExplorerSearchAny
    \/ ExplorerPageChangeAny
    \/ ExplorerLoadMore
    \/ ExplorerReceiveAny

SpecExplorer == InitExplorer /\ [][NextExplorer]_vars

\* the files of the route's response to a request of the page
ExplorerAnswer(q) ==
    LET entries == CHOOSE e \in ListReads(fs, ListFilesRoot(env), q) : TRUE
        response == ListHandler(fs, ListFilesRoot(env), q, entries).resp
    IN IF response.status = 200 THEN response.files ELSE <<>>

\* C30: once no list request of the explorer page is in flight, the entries
\* displayed are those of the response to the most recent request (the last
\* of them when that request appended a page), in whatever order the
\* responses arrived: a late response to an older request has not replaced
\* them.
C30_LatestResponseIsShown ==
    (pager.on /\ pager.inflight = <<>>) =>
        LET answer == ExplorerAnswer(pager.latest.q)
            shown == Len(pager.files)
        IN IF pager.latest.append
           THEN /\ Len(answer) <= shown
                /\ SubSeq(pager.files, shown - Len(answer) + 1, shown) = answer
           ELSE pager.files = answer

====
